---------------------------- MODULE Spec2Model ----------------------------
(***************************************************************************)
(* A model of the remote introspection layer of rpc-project:               *)
(*   rpcclient/darwin/client.py     (DarwinClient: cf, decode_cf,          *)
(*                                   is_objc_type)                         *)
(*   rpcclient/darwin/processes.py  (Process: peek, peek_str, fd_structs,  *)
(*                                   fds; DarwinProcesses: list, lookups,  *)
(*                                   bulk scans)                           *)
(*                                                                         *)
(* Each component has its own specification (SpecObjc, SpecPeekStr, ...)   *)
(* over the module's variables; a specification leaves the variables of    *)
(* the other components at their idle values.                              *)
(***************************************************************************)
EXTENDS Integers, Sequences, FiniteSets, TLC

VARIABLES
    \* ---- is_objc_type (client.py 165-191)
    objcSymbol,     \* the address handed to is_objc_type, a 64-bit word
    objcMemory,     \* the 8 bytes stored at that address, or Unmapped
    objcPc,         \* "call" | "done"
    objcOut,        \* [ret, peeks]: the returned bool and the peeks issued
    \* ---- Process.peek_str (processes.py 181-193)
    mem,            \* the readable remote bytes, from offset 0 to the boundary
    strStart,       \* the address peek_str was called with
    address,        \* peek_str's local `address`
    size,           \* peek_str's local `size`
    buf,            \* peek_str's local `buf`
    strPc,          \* "loop" | "done"
    strOut,         \* what peek_str gave its caller
    \* ---- Process.fd_structs / Process.fds (processes.py 238-330)
    fdListOk,       \* the PROC_PIDLISTFDS fetch answers (a nonzero size)
    fdListing,      \* the raw descriptors the fetch returns, in buffer order
    fdPc,           \* "call" | "fd_structs" | "fds"
    fdOut,          \* what the property gave its caller
    \* ---- DarwinClient.cf / decode_cf (client.py 128-146)
    cfIn,           \* the Python object handed to cf
    cfRemote,       \* the remote object cf returned
    cfPc,           \* "cf" | "decode_cf" | "done"
    cfOut,          \* what decode_cf returned, or the exception raised
    cfHeap,         \* the remote objects cf has created that are alive
    \* ---- DarwinProcesses.list and the derived lookups (processes.py 394-488)
    procTable,      \* the remote's live pids, in proc_listallpids order
    callOp,         \* the method running (or the last one run)
    callArg,        \* its argument
    callPc,         \* "idle" | "sized" | "loop" | "done"
    callHint,       \* n of the first proc_listallpids call (line 478)
    callCount,      \* n of the second proc_listallpids call (line 482)
    callList,       \* the pids of the handles list() returned to the method
    callIdx,        \* the position of the method's loop in that list
    callOut,        \* what the method gave its caller
    prevList,       \* the snapshot of the list() call made just before
    fetchTable,     \* the remote table when the second call was answered
    \* ---- the bulk scans fuser, get_process_by_listening_port, lsof
    \*      (processes.py 427-474)
    scanProcs,      \* the processes list() returned, each with its fd table
    scanOp,         \* the scan called
    scanArg,        \* its argument
    scanPc,         \* "call" | "done"
    scanOut,        \* what the scan returned, or the exception raised
    \* ---- decode_cf, call by call (client.py 128-136)
    dcSymbol,       \* the remote object handed to decode_cf
    dcPc,           \* the next step of decode_cf, or "done"
    dcData,         \* the serialization call returned a data object
    dcReleases,     \* the release messages sent to that data object
    dcOut,          \* what decode_cf returned, or the exception raised
    \* ---- showobject / showclass (client.py 102-122), two callers
    rfPc,           \* per caller: the next step of its call, or "done"
    rfCmd,          \* per caller: the message it built
    rfLock,         \* the holder of _protocol_lock, 0 when free
    rfSent,         \* the commands sent and not yet answered, in order
    rfStream,       \* the bytes answered and not yet received, in order
    rfClosed,       \* the connection is closed: nothing more will come
    rfLen,          \* per caller: response_len
    rfBuf,          \* per caller: the payload bytes _recvall has so far
    rfOut,          \* per caller: what the call returned or raised
    rfCalls,        \* the calls made after a caller's first one
    rfFailed,       \* some call has raised
    rfAfter,        \* per caller: its call took the lock after a failure
    \* Task and thread calls
    tkOp,           \* the operation that ran last
    tkRemote,       \* what the remote side did during it
    tkOut,          \* what it returned or raised
    tkAlive,        \* the scoped buffers still allocated
    tkAcquired,     \* the scoped buffers it acquired
    \* The attributes of a Process handle
    hdPc,           \* "new" before the handle is made, then "made"
    hdRemote,       \* what the remote holds under the pid
    hdCache,        \* the values kept in the instance
    hdReturned,     \* per attribute: the first value a read returned
    hdCount,        \* per attribute: the reads so far (0, 1, 2 for more)
    hdLast,         \* the last read: its outcome and remote calls, the
                    \* remote it met, the reads of the attribute before it,
                    \* and what the attribute and path had returned before
    \* Fs.write_file
    wfBuf,          \* the buf argument
    wfPending,      \* the local buf: what is still to be written
    wfFile,         \* the bytes the remote writes accepted, in call order
    wfFd,           \* what open returned
    wfErr,          \* what the last write returned
    wfWrites,       \* the write calls made
    wfCloses,       \* the close calls made
    wfPc,           \* "open", "loop" or "done"
    wfOut           \* the exception raised, if any

objcVars == <<objcSymbol, objcMemory, objcPc, objcOut>>
strVars  == <<mem, strStart, address, size, buf, strPc, strOut>>
fdVars   == <<fdListOk, fdListing, fdPc, fdOut>>
cfVars   == <<cfIn, cfRemote, cfPc, cfOut, cfHeap>>
procVars == <<procTable, callOp, callArg, callPc, callHint, callCount,
              callList, callIdx, callOut, prevList, fetchTable>>

scanVars == <<scanProcs, scanOp, scanArg, scanPc, scanOut>>

dcVars == <<dcSymbol, dcPc, dcData, dcReleases, dcOut>>

rfVars == <<rfPc, rfCmd, rfLock, rfSent, rfStream, rfClosed, rfLen, rfBuf, rfOut,
           rfCalls, rfFailed, rfAfter>>

tkVars == <<tkOp, tkRemote, tkOut, tkAlive, tkAcquired>>

hdVars == <<hdPc, hdRemote, hdCache, hdReturned, hdCount, hdLast>>

wfVars == <<wfBuf, wfPending, wfFile, wfFd, wfErr, wfWrites, wfCloses, wfPc,
           wfOut>>

vars == <<objcVars, strVars, fdVars, cfVars, procVars, scanVars, dcVars,
          rfVars, tkVars, hdVars, wfVars>>

\* What a component's actions leave alone: the other components.
objcOthers == <<strVars, fdVars, cfVars, procVars, scanVars, dcVars, rfVars,
                tkVars, hdVars, wfVars>>
strOthers == <<objcVars, fdVars, cfVars, procVars, scanVars, dcVars, rfVars,
               tkVars, hdVars, wfVars>>
fdOthers == <<objcVars, strVars, cfVars, procVars, scanVars, dcVars, rfVars,
              tkVars, hdVars, wfVars>>
cfOthers == <<objcVars, strVars, fdVars, procVars, scanVars, dcVars, rfVars,
              tkVars, hdVars, wfVars>>
procOthers == <<objcVars, strVars, fdVars, cfVars, scanVars, dcVars, rfVars,
                tkVars, hdVars, wfVars>>
scanOthers == <<objcVars, strVars, fdVars, cfVars, procVars, dcVars, rfVars,
                tkVars, hdVars, wfVars>>
dcOthers == <<objcVars, strVars, fdVars, cfVars, procVars, scanVars, rfVars,
              tkVars, hdVars, wfVars>>
rfOthers == <<objcVars, strVars, fdVars, cfVars, procVars, scanVars, dcVars,
              tkVars, hdVars, wfVars>>
tkOthers == <<objcVars, strVars, fdVars, cfVars, procVars, scanVars, dcVars,
              rfVars, hdVars, wfVars>>
hdOthers == <<objcVars, strVars, fdVars, cfVars, procVars, scanVars, dcVars,
              rfVars, tkVars, wfVars>>
wfOthers == <<objcVars, strVars, fdVars, cfVars, procVars, scanVars, dcVars,
              rfVars, tkVars, hdVars>>

-----------------------------------------------------------------------------
(* Python outcomes: a call returns a value or raises an exception.          *)

Raise(exc) == [kind |-> "raise", v |-> exc]
PyNone     == [kind |-> "None", v |-> "None"]
PyStr(cps) == [kind |-> "str", v |-> cps]

Min(a, b) == IF a < b THEN a ELSE b

-----------------------------------------------------------------------------
(* Runtime object classifier: DarwinClient.is_objc_type.                    *)
(*                                                                          *)
(* A 64-bit word is the set of its set bit positions (0 is the lowest bit), *)
(* so `a & b` is the intersection and `a == b` is set equality.             *)

Bits(lo, hi) == lo..hi
BitAnd(a, b) == a \cap b

\* client.py 42-47.  0x000003f000000001 / 0x000001a000000001 (ARM64) and
\* 0x001f800000000001 / 0x001d800000000001 (X86_64).
ISA_MAGICS ==
    << [mask  |-> {0} \cup Bits(36, 41), value |-> {0, 37, 39, 40}],
       [mask  |-> {0} \cup Bits(47, 52), value |-> {0, 47, 48, 50, 51, 52}] >>

\* client.py 49: 1 << 63
OBJC_TAG_MASK == {63}

\* What the remote holds at an address: 8 readable bytes (a word), or nothing
\* (the peek raises RpcClientException).
Mapped(word) == [readable |-> TRUE, isa |-> word]
Unmapped     == [readable |-> FALSE, isa |-> {}]

\* `for mask, value in ISA_MAGICS: if word & mask == value`
MatchesIsaMagic(word) ==
    \E i \in 1..Len(ISA_MAGICS) :
        BitAnd(word, ISA_MAGICS[i].mask) = ISA_MAGICS[i].value

\* The variant with the isa-magic test of the address moved before the
\* tagged-pointer test.
IsObjcType_MagicFirst(symbol, memory) ==
    IF MatchesIsaMagic(symbol)
    THEN [ret |-> FALSE, peeks |-> 0]
    ELSE IF BitAnd(symbol, OBJC_TAG_MASK) = OBJC_TAG_MASK
    THEN [ret |-> TRUE, peeks |-> 0]
    ELSE IF ~memory.readable
    THEN [ret |-> FALSE, peeks |-> 1]
    ELSE [ret |-> MatchesIsaMagic(memory.isa), peeks |-> 1]

\* The variant without the class test of the address itself (lines 176-179
\* left out).
IsObjcType_NoAddressTest(symbol, memory) ==
    IF BitAnd(symbol, OBJC_TAG_MASK) = OBJC_TAG_MASK
    THEN [ret |-> TRUE, peeks |-> 0]
    ELSE IF ~memory.readable
    THEN [ret |-> FALSE, peeks |-> 1]
    ELSE [ret |-> MatchesIsaMagic(memory.isa), peeks |-> 1]

\* The variant whose second loop is a copy of the first: a matching isa
\* returns False.
IsObjcType_IsaLoopCopied(symbol, memory) ==
    IF BitAnd(symbol, OBJC_TAG_MASK) = OBJC_TAG_MASK
    THEN [ret |-> TRUE, peeks |-> 0]
    ELSE IF MatchesIsaMagic(symbol)
    THEN [ret |-> FALSE, peeks |-> 0]
    ELSE [ret |-> FALSE, peeks |-> 1]

\* is_objc_type(symbol): the returned bool and the number of remote peeks
\* (`symbol[0]` with item size 8) it issued.  `memory` is what the remote
\* holds at `symbol` (an unreadable address makes the peek raise
\* RpcClientException, caught at line 184).
IsObjcType(symbol, memory) ==
    IF BitAnd(symbol, OBJC_TAG_MASK) = OBJC_TAG_MASK
    THEN [ret |-> TRUE, peeks |-> 0]
    ELSE IF MatchesIsaMagic(symbol)
    THEN [ret |-> FALSE, peeks |-> 0]
    ELSE IF ~memory.readable
    THEN [ret |-> FALSE, peeks |-> 1]
    ELSE [ret |-> MatchesIsaMagic(memory.isa), peeks |-> 1]

\* The words the classifier is tried on: every union of these bit groups.
\* {63} is the tag bit, the two value patterns match the two isa magics,
\* bit 36 and bit 49 lie inside a mask but outside its value (they break a
\* match), bit 12 lies outside both masks.
WordAtoms ==
    { {63}, ISA_MAGICS[1].value, ISA_MAGICS[2].value, {36}, {49}, {12} }

Words == { UNION S : S \in SUBSET WordAtoms }

ObjcIdle ==
    /\ objcSymbol = {}
    /\ objcMemory = Unmapped
    /\ objcPc = "idle"
    /\ objcOut = [ret |-> FALSE, peeks |-> 0]

ObjcInit ==
    /\ objcSymbol \in Words
    /\ objcMemory \in {Mapped(w) : w \in Words} \cup {Unmapped}
    /\ objcPc = "call"
    /\ objcOut = [ret |-> FALSE, peeks |-> 0]

CallIsObjcType ==
    /\ objcPc = "call"
    /\ objcOut' = IsObjcType(objcSymbol, objcMemory)
    /\ objcPc' = "done"
    /\ UNCHANGED <<objcSymbol, objcMemory>>
    /\ UNCHANGED objcOthers

-----------------------------------------------------------------------------
(* Memory access layer: Process.peek and Process.peek_str.                  *)
(*                                                                          *)
(* `mem` is the readable remote region: mem[i + 1] is the byte at address   *)
(* i, and every address from Len(mem) on is unmapped.                       *)

\* processes.py 154
PEEK_STR_CHUNK_SIZE == 256

\* bytes.decode(): UTF-8.  One-byte and two-byte sequences are decoded to
\* their code points; any other byte, and a truncated or malformed
\* two-byte sequence, raises UnicodeDecodeError.
IsAscii(b)        == b < 128
IsLead2(b)        == b >= 194 /\ b <= 223
IsContinuation(b) == b >= 128 /\ b <= 191

RECURSIVE Utf8Decode(_)
\* The bytes are decoded in two halves, cut where no character is split:
\* after the continuation byte when the middle byte leads a character.
Utf8Decode(bytes) ==
    LET n == Len(bytes)
    IN  IF n = 0 THEN PyStr(<< >>)
        ELSE IF IsAscii(bytes[1]) /\ n = 1 THEN PyStr(<<bytes[1]>>)
        ELSE IF n = 1 THEN Raise("UnicodeDecodeError")
        ELSE IF IsLead2(bytes[1]) /\ n = 2
        THEN IF IsContinuation(bytes[2])
             THEN PyStr(<<(bytes[1] - 192) * 64 + (bytes[2] - 128)>>)
             ELSE Raise("UnicodeDecodeError")
        ELSE LET half == n \div 2
                 cut == IF IsLead2(bytes[half]) THEN half + 1 ELSE half
                 left == Utf8Decode(SubSeq(bytes, 1, cut))
                 right == Utf8Decode(SubSeq(bytes, cut + 1, n))
             IN  IF left.kind = "raise" THEN left
                 ELSE IF right.kind = "raise" THEN right
                 ELSE PyStr(left.v \o right.v)

\* Process.peek(address, size): vm_read of the whole range; a nonzero
\* status (part of the range unmapped) raises BadReturnValueError.
ProcessPeek(m, addr, n) ==
    IF addr + n <= Len(m)
    THEN [kind |-> "bytes", v |-> SubSeq(m, addr + 1, addr + n)]
    ELSE Raise("BadReturnValueError")

HasNul(bytes) == \E i \in 1..Len(bytes) : bytes[i] = 0

\* buf.split(b'\x00', 1)[0], for a buf that holds a NUL
SplitAtNul(bytes) ==
    LET i == CHOOSE k \in 1..Len(bytes) :
                 /\ bytes[k] = 0
                 /\ \A j \in 1..(k - 1) : bytes[j] # 0
    IN  SubSeq(bytes, 1, i - 1)

\* The variant that advances by the initial chunk size.
AdvanceAddress_FullChunk(addr, n) == addr + PEEK_STR_CHUNK_SIZE

\* `address += size`
AdvanceAddress(addr, n) == addr + n

\* The variant that takes one byte off the chunk size.
ShrinkSize_MinusOne(n) == n - 1

\* `size = size // 2`
ShrinkSize(n) == n \div 2

\* One iteration of the loop whose peek raises (line 192-193).
PeekStrChunkFails ==
    /\ strPc = "loop"
    /\ size # 0
    /\ ProcessPeek(mem, address, size).kind = "raise"
    /\ size' = ShrinkSize(size)
    /\ UNCHANGED <<mem, strStart, address, buf, strPc, strOut>>
    /\ UNCHANGED strOthers

\* One iteration whose peek succeeds and leaves buf without a NUL
\* (lines 188-191).
PeekStrChunkNoNul ==
    /\ strPc = "loop"
    /\ size # 0
    /\ LET r == ProcessPeek(mem, address, size)
       IN  /\ r.kind = "bytes"
           /\ ~HasNul(buf \o r.v)
           /\ buf' = buf \o r.v
    /\ address' = AdvanceAddress(address, size)
    /\ UNCHANGED <<mem, strStart, size, strPc, strOut>>
    /\ UNCHANGED strOthers

\* One iteration whose peek succeeds and leaves a NUL in buf: peek_str
\* returns the decoded prefix, or decode() raises (lines 188-190).
PeekStrChunkHasNul ==
    /\ strPc = "loop"
    /\ size # 0
    /\ LET r == ProcessPeek(mem, address, size)
       IN  /\ r.kind = "bytes"
           /\ HasNul(buf \o r.v)
           /\ buf' = buf \o r.v
           /\ strOut' = Utf8Decode(SplitAtNul(buf \o r.v))
    /\ strPc' = "done"
    /\ UNCHANGED <<mem, strStart, address, size>>
    /\ UNCHANGED strOthers

\* `while size:` ends with size = 0: the function falls off its end and
\* the caller gets None.
PeekStrGiveUp ==
    /\ strPc = "loop"
    /\ size = 0
    /\ strOut' = PyNone
    /\ strPc' = "done"
    /\ UNCHANGED <<mem, strStart, address, size, buf>>
    /\ UNCHANGED strOthers

PeekStrNext ==
    \/ PeekStrChunkFails
    \/ PeekStrChunkNoNul
    \/ PeekStrChunkHasNul
    \/ PeekStrGiveUp

\* ---- the remote memories peek_str is run on

\* Longest text after the padding, in characters.
MaxChars == 2
\* Readable bytes after the NUL: 0..MaxGap (and one boundary a chunk away).
MaxGap == 3
\* Paddings that end 0..MaxPadSlack bytes before a chunk boundary.
MaxPadSlack == 1
\* The start address: 0..MaxStart.
MaxStart == 1

\* 'a' (one byte in UTF-8) and U+00E9 (two bytes, C3 A9)
TextChars == {97, 233}

Texts == UNION { [1..n -> TextChars] : n \in 0..MaxChars }

RECURSIVE Utf8Encode(_)
\* str.encode(): what the remote holds for a text
Utf8Encode(text) ==
    IF text = << >> THEN << >>
    ELSE (IF text[1] < 128
          THEN <<text[1]>>
          ELSE <<192 + (text[1] \div 64), 128 + (text[1] % 64)>>)
         \o Utf8Encode(Tail(text))

Pads == {0} \cup { PEEK_STR_CHUNK_SIZE - d : d \in 0..MaxPadSlack }

\* The bytes below the start address: NULs, which peek_str must not see.
BytesBelow(start) == [i \in 1..start |-> 0]
\* `pad` bytes 'b' in front of the text
Padding(pad) == [i \in 1..pad |-> 98]
\* The bytes after the terminating NUL: an undecodable byte, a NUL, 'a', ...
BytesAfter(n) ==
    [i \in 1..n |-> CASE i % 3 = 1 -> 255 [] i % 3 = 2 -> 0 [] OTHER -> 97]

MemoryImage(start, pad, text) ==
    BytesBelow(start) \o Padding(pad) \o Utf8Encode(text) \o <<0>>
        \o BytesAfter(PEEK_STR_CHUNK_SIZE + MaxGap)

\* The address of the string's terminating NUL
NulAddress(start, pad, text) == start + pad + Len(Utf8Encode(text))

\* Where the readable region ends: just after the NUL and up to MaxGap
\* bytes later, a whole chunk later (no peek ever fails), at the NUL (the
\* NUL is unreadable) and at the start address (nothing is readable).
Boundaries(start, nul) ==
    { nul + 1 + g : g \in 0..MaxGap }
        \cup { nul + 1 + PEEK_STR_CHUNK_SIZE, nul, start }

StrIdle ==
    /\ mem = << >>
    /\ strStart = 0
    /\ address = 0
    /\ size = 0
    /\ buf = << >>
    /\ strPc = "idle"
    /\ strOut = PyNone

StrInit ==
    \E start \in 0..MaxStart, pad \in Pads, text \in Texts :
        \E b \in Boundaries(start, NulAddress(start, pad, text)) :
            /\ mem = SubSeq(MemoryImage(start, pad, text), 1, b)
            /\ strStart = start
            /\ address = start
            /\ size = PEEK_STR_CHUNK_SIZE
            /\ buf = << >>
            /\ strPc = "loop"
            /\ strOut = PyNone

-----------------------------------------------------------------------------
(* File descriptors: Process.fd_structs and Process.fds.                    *)
(*                                                                          *)
(* A raw descriptor is one proc_fdinfo entry of the PROC_PIDLISTFDS buffer  *)
(* together with what the remote answers to its detail query:               *)
(*   proc_fd, proc_fdtype   the entry                                       *)
(*   errno                  "ok" (proc_pidfdinfo returned a size), or the   *)
(*                          errno of the failing query                      *)
(*   soi_kind, soi_family, vip_path, sun_path, insi_lport, insi_fport       *)
(*                          the fields of the detail structure that fds     *)
(*                          copies into its records (the two socket         *)
(*                          addresses, copied like the ports, are left out) *)

PyList(items) == [kind |-> "list", v |-> items]

FdTypes == { "PROX_FDTYPE_VNODE", "PROX_FDTYPE_SOCKET", "PROX_FDTYPE_PIPE",
             "PROX_FDTYPE_KQUEUE" }
SoKinds == { "SOCKINFO_TCP", "SOCKINFO_IN", "SOCKINFO_UN",
             "SOCKINFO_KERN_EVENT" }
SoFamilies == { "AF_INET", "AF_INET6", "AF_UNIX" }

\* processes.py 88-97
SOCKET_TYPE_DATACLASS ==
    [ AF_INET  |-> [SOCKINFO_TCP |-> "Ipv4TcpFd", SOCKINFO_IN |-> "Ipv4UdpFd"],
      AF_INET6 |-> [SOCKINFO_TCP |-> "Ipv6TcpFd", SOCKINFO_IN |-> "Ipv6UdpFd"] ]

\* FdStruct(fd=fd, struct=<the parsed detail structure>)
FdStruct(raw) ==
    [ fd |-> [proc_fd |-> raw.proc_fd, proc_fdtype |-> raw.proc_fdtype],
      struct |-> [ soi_kind   |-> raw.soi_kind,
                   soi_family |-> raw.soi_family,
                   vip_path   |-> raw.vip_path,
                   sun_path   |-> raw.sun_path,
                   insi_lport |-> raw.insi_lport,
                   insi_fport |-> raw.insi_fport ] ]

\* The variant that treats every failing detail query as benign.
DetailQueryFailed_SkipAll(errno) == "continue"

\* `if not vs:` (lines 290-296, 306-311, 319-324): EBADF skips the entry,
\* any other errno raises.
DetailQueryFailed(errno) ==
    IF errno = "EBADF" THEN "continue" ELSE "raise"

RECURSIVE FdStructsLoop(_, _, _)
\* The loop of lines 284-328 from entry i on, with `result` so far.
FdStructsLoop(listing, i, result) ==
    IF i > Len(listing) THEN PyList(result)
    ELSE LET raw == listing[i]
             query ==
                 IF raw.errno = "ok"
                 THEN FdStructsLoop(listing, i + 1, Append(result, FdStruct(raw)))
                 ELSE IF DetailQueryFailed(raw.errno) = "continue"
                 THEN FdStructsLoop(listing, i + 1, result)
                 ELSE Raise("BadReturnValueError")
         IN  CASE raw.proc_fdtype = "PROX_FDTYPE_VNODE"  -> query
               [] raw.proc_fdtype = "PROX_FDTYPE_SOCKET" -> query
               [] raw.proc_fdtype = "PROX_FDTYPE_PIPE"   -> query
               [] OTHER -> FdStructsLoop(listing, i + 1, result)

\* Process.fd_structs.  The fetch returns `size` bytes, 8 per proc_fdinfo
\* entry; a zero size raises (lines 280-282).
FdStructs(listOk, listing) ==
    LET fetched == IF listOk THEN Len(listing) * 8 ELSE 0
    IN  IF fetched = 0 THEN Raise("BadReturnValueError")
        ELSE FdStructsLoop(listing, 1, << >>)

FileFd(fd, path) == [cls |-> "FileFd", fd |-> fd, path |-> path]
PipeFd(fd)       == [cls |-> "PipeFd", fd |-> fd]
UnixFd(fd, path) == [cls |-> "UnixFd", fd |-> fd, path |-> path]
InetFd(cls, fd, lport, fport) ==
    [cls |-> cls, fd |-> fd, local_port |-> lport, remote_port |-> fport]

\* The variant of the table lookup with the two keys in the other order of
\* precedence: the kind chooses v4/v6 and the family chooses TCP/UDP.
SocketDataclass_Swapped(family, kind) ==
    CASE family = "AF_INET"  /\ kind = "SOCKINFO_TCP" -> "Ipv4TcpFd"
      [] family = "AF_INET"  /\ kind = "SOCKINFO_IN"  -> "Ipv6TcpFd"
      [] family = "AF_INET6" /\ kind = "SOCKINFO_TCP" -> "Ipv4UdpFd"
      [] family = "AF_INET6" /\ kind = "SOCKINFO_IN"  -> "Ipv6UdpFd"
      [] OTHER -> "KeyError"

\* SOCKET_TYPE_DATACLASS[family][kind] (line 254); a key the table lacks
\* raises KeyError.
SocketDataclass(family, kind) ==
    IF family \in DOMAIN SOCKET_TYPE_DATACLASS
    THEN IF kind \in DOMAIN SOCKET_TYPE_DATACLASS[family]
         THEN SOCKET_TYPE_DATACLASS[family][kind]
         ELSE "KeyError"
    ELSE "KeyError"

RECURSIVE FdsLoop(_, _, _)
\* The loop of lines 242-267 from fdstruct i on, with `result` so far.
FdsLoop(structs, i, result) ==
    IF i > Len(structs) THEN PyList(result)
    ELSE LET fd == structs[i].fd
             parsed == structs[i].struct
         IN  CASE fd.proc_fdtype = "PROX_FDTYPE_VNODE" ->
                    FdsLoop(structs, i + 1,
                            Append(result, FileFd(fd.proc_fd, parsed.vip_path)))
               [] fd.proc_fdtype = "PROX_FDTYPE_PIPE" ->
                    FdsLoop(structs, i + 1, Append(result, PipeFd(fd.proc_fd)))
               [] fd.proc_fdtype = "PROX_FDTYPE_SOCKET" ->
                    IF parsed.soi_kind \in {"SOCKINFO_TCP", "SOCKINFO_IN"}
                    THEN LET correct_class ==
                                 SocketDataclass(parsed.soi_family, parsed.soi_kind)
                         IN  IF correct_class = "KeyError"
                             THEN Raise("KeyError")
                             ELSE FdsLoop(structs, i + 1,
                                      Append(result,
                                             InetFd(correct_class, fd.proc_fd,
                                                    parsed.insi_lport,
                                                    parsed.insi_fport)))
                    ELSE IF parsed.soi_kind = "SOCKINFO_UN"
                    THEN FdsLoop(structs, i + 1,
                                 Append(result, UnixFd(fd.proc_fd, parsed.sun_path)))
                    ELSE FdsLoop(structs, i + 1, result)
               [] OTHER -> FdsLoop(structs, i + 1, result)

\* Process.fds: fd_structs (its exception propagates), then the loop.
Fds(listOk, listing) ==
    LET structs == FdStructs(listOk, listing)
    IN  IF structs.kind = "raise" THEN structs
        ELSE FdsLoop(structs.v, 1, << >>)

\* ---- the raw fd tables the properties are run on

\* Longest raw fd listing.
MaxFds == 2

NoDetail ==
    [ proc_fd |-> 0, proc_fdtype |-> "-", errno |-> "ok",
      soi_kind |-> "-", soi_family |-> "-", vip_path |-> << >>,
      sun_path |-> << >>, insi_lport |-> 0, insi_fport |-> 0 ]

\* A path is the sequence of its parts (pathlib's Path.parts): "/a" and the
\* relative "a".
VnodePaths == { <<"/", "a">>, <<"a">> }

\* What the remote can hold for one descriptor, its proc_fd left open.
RawShapes ==
    \* a failing detail query, for each type that has one
    { [NoDetail EXCEPT !.proc_fdtype = t, !.errno = e] :
        t \in {"PROX_FDTYPE_VNODE", "PROX_FDTYPE_SOCKET", "PROX_FDTYPE_PIPE"},
        e \in {"EBADF", "ESRCH"} }
    \cup
    \* a type fd_structs has no detail query for
    { [NoDetail EXCEPT !.proc_fdtype = "PROX_FDTYPE_KQUEUE", !.errno = "ok"] }
    \cup
    { [NoDetail EXCEPT !.proc_fdtype = "PROX_FDTYPE_PIPE", !.errno = "ok"] }
    \cup
    { [NoDetail EXCEPT !.proc_fdtype = "PROX_FDTYPE_VNODE", !.errno = "ok",
                       !.vip_path = path] : path \in VnodePaths }
    \cup
    { [NoDetail EXCEPT !.proc_fdtype = "PROX_FDTYPE_SOCKET", !.errno = "ok",
                       !.soi_kind = k, !.soi_family = "AF_UNIX",
                       !.sun_path = <<"/", "s">>] :
        k \in {"SOCKINFO_UN", "SOCKINFO_KERN_EVENT"} }
    \cup
    { [NoDetail EXCEPT !.proc_fdtype = "PROX_FDTYPE_SOCKET", !.errno = "ok",
                       !.soi_kind = k, !.soi_family = f,
                       !.insi_lport = 80, !.insi_fport = fport] :
        k \in {"SOCKINFO_TCP", "SOCKINFO_IN"}, f \in SoFamilies,
        fport \in {0, 5} }

\* The descriptor numbers of a listing: 3, 5, 7, ... (none equals its
\* position in the buffer).
FdNumber(i) == 2 * i + 1

RawListings ==
    UNION { { [i \in 1..n |-> [shapes[i] EXCEPT !.proc_fd = FdNumber(i)]] :
                shapes \in [1..n -> RawShapes] } : n \in 0..MaxFds }

FdIdle ==
    /\ fdListOk = FALSE
    /\ fdListing = << >>
    /\ fdPc = "idle"
    /\ fdOut = PyNone

FdInit ==
    /\ fdListOk \in BOOLEAN
    /\ fdListing \in RawListings
    /\ fdPc = "call"
    /\ fdOut = PyNone

CallFdStructs ==
    /\ fdPc = "call"
    /\ fdOut' = FdStructs(fdListOk, fdListing)
    /\ fdPc' = "fd_structs"
    /\ UNCHANGED <<fdListOk, fdListing>>
    /\ UNCHANGED fdOthers

CallFds ==
    /\ fdPc = "call"
    /\ fdOut' = Fds(fdListOk, fdListing)
    /\ fdPc' = "fds"
    /\ UNCHANGED <<fdListOk, fdListing>>
    /\ UNCHANGED fdOthers

-----------------------------------------------------------------------------
(* Value bridge: DarwinClient.cf and DarwinClient.decode_cf.                *)
(*                                                                          *)
(* Python objects are records [kind, v]:                                    *)
(*   None, bool, int, float (its 8 IEEE-754 bytes), str (code points),     *)
(*   bytes, datetime ([secs, tz]: wall-clock seconds since 2001-01-01       *)
(*   00:00:00 and the tzinfo, "naive" for none), list, dict (its items in   *)
(*   insertion order).                                                      *)
(* A binary property list is the tree of its objects, records [t, v], t    *)
(* naming the object's marker.                                              *)

PyBool(b)             == [kind |-> "bool", v |-> b]
PyInt(n)              == [kind |-> "int", v |-> n]
PyFloat(ieee)         == [kind |-> "float", v |-> ieee]
PyBytes(bytes)        == [kind |-> "bytes", v |-> bytes]
PyDatetime(secs, tz)  == [kind |-> "datetime", v |-> [secs |-> secs, tz |-> tz]]
PyDict(items)         == [kind |-> "dict", v |-> items]
Item(key, value)      == [k |-> key, val |-> value]

Plist(t, v) == [t |-> t, v |-> v]

\* Lexicographic order of two code-point sequences: Python's str `<`
LexLess(a, b) ==
    \E i \in 1..Len(b) :
        /\ \A j \in 1..(i - 1) : j <= Len(a) /\ a[j] = b[j]
        /\ i > Len(a) \/ a[i] < b[i]

\* sorted(value.items()): the items by key (plistlib's sort_keys=True)
SortedItems(items) ==
    LET n == Len(items)
        rank(i) == 1 + Cardinality({ j \in 1..n : LexLess(items[j].k, items[i].k) })
    IN  [r \in 1..n |-> items[CHOOSE i \in 1..n : rank(i) = r]]

\* The first raised exception among a sequence of results, if any
FirstRaise(results) ==
    LET bad == { i \in 1..Len(results) : results[i].t = "raise" }
    IN  IF bad = {} THEN Plist("ok", "ok")
        ELSE results[CHOOSE i \in bad : \A j \in bad : i <= j]

RECURSIVE PlistDumps(_)
\* plistlib.dumps(o, fmt=FMT_BINARY) (line 143): the object tree written,
\* or Plist("raise", exc).  An int is written in 1, 2, 4 or 8 bytes (every
\* int of the model lies within 32 bits); a datetime as the float of
\* `value - datetime(2001, 1, 1)`, which raises TypeError for a datetime
\* that has a tzinfo.
PlistDumps(o) ==
    CASE o.kind = "None" -> Plist("null", "null")
      [] o.kind = "bool" -> Plist(IF o.v THEN "true" ELSE "false", "bool")
      [] o.kind = "int" ->
            Plist("int", [ width |-> IF o.v < 0 THEN 8
                                     ELSE IF o.v < 256 THEN 1
                                     ELSE IF o.v < 65536 THEN 2
                                     ELSE 4,
                           n |-> o.v ])
      [] o.kind = "float" -> Plist("real", o.v)
      [] o.kind = "datetime" ->
            IF o.v.tz # "naive" THEN Plist("raise", "TypeError")
            ELSE Plist("date", o.v.secs)
      [] o.kind = "bytes" -> Plist("data", o.v)
      [] o.kind = "str" ->
            IF \A i \in 1..Len(o.v) : o.v[i] < 128
            THEN Plist("ascii", o.v)
            ELSE Plist("utf16", o.v)
      [] o.kind = "list" ->
            LET objs == [i \in 1..Len(o.v) |-> PlistDumps(o.v[i])]
                exc == FirstRaise(objs)
            IN  IF exc.t = "raise" THEN exc ELSE Plist("array", objs)
      [] o.kind = "dict" ->
            LET items == SortedItems(o.v)
                keys == [i \in 1..Len(items) |-> PlistDumps(PyStr(items[i].k))]
                vals == [i \in 1..Len(items) |-> PlistDumps(items[i].val)]
                exc == FirstRaise(vals)
            IN  IF exc.t = "raise" THEN exc
                ELSE Plist("dict", [keys |-> keys, vals |-> vals])
      [] OTHER -> Plist("raise", "TypeError")

RECURSIVE PlistLoads(_)
\* plistlib.loads(bytes) (line 134): a date comes back as
\* `datetime(2001, 1, 1) + timedelta(seconds=f)`, a datetime without tzinfo.
PlistLoads(p) ==
    CASE p.t = "null" -> PyNone
      [] p.t = "true" -> PyBool(TRUE)
      [] p.t = "false" -> PyBool(FALSE)
      [] p.t = "int" -> PyInt(p.v.n)
      [] p.t = "real" -> PyFloat(p.v)
      [] p.t = "date" -> PyDatetime(p.v, "naive")
      [] p.t = "data" -> PyBytes(p.v)
      [] p.t = "ascii" -> PyStr(p.v)
      [] p.t = "utf16" -> PyStr(p.v)
      [] p.t = "array" -> PyList([i \in 1..Len(p.v) |-> PlistLoads(p.v[i])])
      [] p.t = "dict" ->
            PyDict([i \in 1..Len(p.v.keys) |->
                       Item(PlistLoads(p.v.keys[i]).v, PlistLoads(p.v.vals[i]))])

RECURSIVE RemoteSerialize(_)
\* What the remote holds after propertyListWithData_options_format_error_
\* (lines 145-146) and writes back in
\* dataWithPropertyList_format_options_error_ (lines 129-130): the same
\* property list, a dictionary's entries in the remote's own order (here
\* the reverse of the order received).
RemoteSerialize(p) ==
    CASE p.t = "array" ->
            Plist("array", [i \in 1..Len(p.v) |-> RemoteSerialize(p.v[i])])
      [] p.t = "dict" ->
            LET n == Len(p.v.keys)
            IN  Plist("dict",
                      [ keys |-> [i \in 1..n |-> p.v.keys[n + 1 - i]],
                        vals |-> [i \in 1..n |->
                                     RemoteSerialize(p.v.vals[n + 1 - i])] ])
      [] OTHER -> p

\* The remote's canonical null object, `self.symbols.kCFNull[0]`
kCFNull == Plist("kCFNull", "kCFNull")

\* DarwinClient.cf(o): the remote reference, or the exception raised.
Cf(o) ==
    IF o.kind = "None" THEN kCFNull
    ELSE PlistDumps(o)

\* DarwinClient.decode_cf(symbol).  The remote answers 0 (no data object)
\* for an object that is no property list, such as kCFNull.
DecodeCf(symbol) ==
    IF symbol.t = "kCFNull" THEN PyNone
    ELSE PlistLoads(RemoteSerialize(symbol))

RECURSIVE PyEq(_, _)
\* Python's `a == b`: lists by position, dicts by key whatever the order,
\* a datetime with a tzinfo never equal to one without.
PyEq(a, b) ==
    IF a.kind # b.kind THEN FALSE
    ELSE CASE a.kind = "list" ->
                 /\ Len(a.v) = Len(b.v)
                 /\ \A i \in 1..Len(a.v) : PyEq(a.v[i], b.v[i])
           [] a.kind = "dict" ->
                 /\ Len(a.v) = Len(b.v)
                 /\ \A i \in 1..Len(a.v) :
                        \E j \in 1..Len(b.v) :
                            /\ a.v[i].k = b.v[j].k
                            /\ PyEq(a.v[i].val, b.v[j].val)
           [] OTHER -> a.v = b.v

\* ---- the objects cf is run on

\* Longest list.
MaxSeqLen == 2

\* 1967-05-04 03:02:01 as seconds since 2001-01-01 00:00:00
TestInstant == -1062363479

CfLeaves ==
    { PyBool(TRUE), PyBool(FALSE),
      PyDatetime(TestInstant, "UTC"), PyDatetime(TestInstant, "naive"),
      PyStr(<<115, 116, 114>>), PyStr(<<233>>),
      PyBytes(<<98, 0, 255>>),
      PyInt(123), PyInt(-1), PyInt(70000),
      \* 0.1
      PyFloat(<<63, 185, 153, 153, 153, 153, 153, 154>>) }

CfLists ==
    UNION { { PyList(items) : items \in [1..n -> CfLeaves] } : n \in 0..MaxSeqLen }

\* "b" and "a"
CfKeys == { <<98>>, <<97>> }

CfDicts ==
    { PyDict(<< >>) }
    \cup { PyDict(<<Item(k, x)>>) : k \in CfKeys, x \in CfLeaves }
    \cup { PyDict(<<Item(ks[1], x1), Item(ks[2], x2)>>) :
             ks \in { p \in CfKeys \X CfKeys : p[1] # p[2] },
             x1 \in CfLeaves, x2 \in CfLeaves }

CfContainers == CfLists \cup CfDicts

CfNested ==
    { PyList(<<c>>) : c \in CfContainers }
    \cup { PyDict(<<Item(<<97>>, c)>>) : c \in CfContainers }
    \cup { PyList(<< PyDict(<<Item(<<107, 101, 121>>, PyStr(<<118, 97, 108>>))>>),
                     PyList(<<PyInt(1), PyInt(2)>>) >>) }

CfInputs == {PyNone} \cup CfLeaves \cup CfContainers \cup CfNested

CfIdle ==
    /\ cfIn = PyNone
    /\ cfRemote = kCFNull
    /\ cfPc = "idle"
    /\ cfOut = PyNone
    /\ cfHeap = {}

CfInit ==
    /\ cfIn \in CfInputs
    /\ cfRemote = kCFNull
    /\ cfPc = "cf"
    /\ cfOut = PyNone
    /\ cfHeap = {}

\* The remote calls cf makes for an object that is not None, after
\* plistlib.dumps (lines 145-146)
CfRemoteCalls ==
    <<"CFDataCreate", "propertyListWithData_options_format_error_">>

\* The objects alive after a remote call: CFDataCreate makes the data
\* object, propertyListWithData_options_format_error_ the property list;
\* a release of the data object frees it.
HeapAfterCall(heap, call) ==
    CASE call = "CFDataCreate" -> heap \cup {"plist_objc_bytes"}
      [] call = "propertyListWithData_options_format_error_" ->
             heap \cup {"property list"}
      [] call = "release" -> heap \ {"plist_objc_bytes"}

RECURSIVE HeapAfterCalls(_, _)
HeapAfterCalls(heap, calls) ==
    IF calls = << >> THEN heap
    ELSE HeapAfterCalls(HeapAfterCall(heap, Head(calls)), Tail(calls))

\* The remote objects cf(o) has created and left alive: none for None
\* (kCFNull is the remote's own, lines 140-141) and none when dumps raises
CfHeap(o) ==
    IF o.kind = "None" \/ Cf(o).t = "raise" THEN {}
    ELSE HeapAfterCalls({}, CfRemoteCalls)

\* client.cf(data), which returns the remote reference
CallCf ==
    /\ cfPc = "cf"
    /\ Cf(cfIn).t # "raise"
    /\ cfRemote' = Cf(cfIn)
    /\ cfHeap' = CfHeap(cfIn)
    /\ cfPc' = "decode_cf"
    /\ UNCHANGED <<cfIn, cfOut>>
    /\ UNCHANGED cfOthers

\* client.cf(data), which raises: the caller never gets a reference
CallCfRaises ==
    /\ cfPc = "cf"
    /\ Cf(cfIn).t = "raise"
    /\ cfOut' = Raise(Cf(cfIn).v)
    /\ cfPc' = "done"
    /\ cfHeap' = CfHeap(cfIn)
    /\ UNCHANGED <<cfIn, cfRemote>>
    /\ UNCHANGED cfOthers

\* `.py` of the returned reference: decode_cf
CallDecodeCf ==
    /\ cfPc = "decode_cf"
    /\ cfOut' = DecodeCf(cfRemote)
    /\ cfPc' = "done"
    /\ UNCHANGED <<cfIn, cfRemote, cfHeap>>
    /\ UNCHANGED cfOthers

-----------------------------------------------------------------------------
(* Process directory: DarwinProcesses.list, get_by_pid, get_by_basename,    *)
(* get_by_name, grep.                                                       *)
(*                                                                          *)
(* The remote process table changes under the client: a process is spawned *)
(* or exits between any two remote calls.  A handle (a Process object) is   *)
(* the record of its pid; a text is the sequence of its characters.         *)

\* Pids are 1..MaxPid.
MaxPid == 2
\* proc_listallpids(0, 0) answers the number of live pids plus 0..MaxSlack.
MaxSlack == 1

Handle(pid) == [pid |-> pid]

\* What proc_pidpath gives for a live pid, as Path.parts; << >> when it
\* answers no path (path_len 0, line 352).
ProcPath(pid) ==
    CASE pid = 1 -> << <<"/">>, <<"s", "b", "i", "n">>, <<"i", "n", "i", "t">> >>
      [] pid = 2 -> << <<"/">>, <<"b", "i", "n">>, <<"s", "s", "h", "d">> >>
      [] pid = 3 -> << >>
      [] OTHER   -> << <<"/">>, <<"b", "i", "n">>, <<"s", "s", "h">> >>

\* pbsd.pbi_name of a live pid
ProcName(pid) ==
    CASE pid = 1 -> <<"i", "n", "i", "t">>
      [] pid = 2 -> <<"s", "s", "h", "d">>
      [] pid = 3 -> <<"k", "t">>
      [] OTHER   -> <<"s", "s", "h">>

\* The texts the lookups are asked for
LookupTexts == { <<"s", "s", "h", "d">>, <<"s", "s", "h">>, <<"x">> }

\* Process.path (lines 347-354) at a moment when `table` is the remote
\* table: a process that is gone has no path.  << >> stands for None.
PathOf(pid, table) ==
    IF \E i \in 1..Len(table) : table[i] = pid THEN ProcPath(pid) ELSE << >>

\* Process.basename (lines 356-361)
BasenameOf(pid, table) ==
    LET path == PathOf(pid, table)
    IN  IF path = << >> THEN << >> ELSE path[Len(path)]

\* Process.name (lines 363-365): task_all_info raises when proc_pidinfo
\* answers 0, as it does for a process that is gone (lines 336-337).
NameOf(pid, table) ==
    IF \E i \in 1..Len(table) : table[i] = pid
    THEN [kind |-> "text", v |-> ProcName(pid)]
    ELSE Raise("BadReturnValueError")

\* Python's `name in basename` for two texts
IsSubstring(name, text) ==
    \E i \in 0..(Len(text) - Len(name)) :
        SubSeq(text, i + 1, i + Len(name)) = name

\* proc_listallpids(0, 0): the capacity to allocate
ProcListAllPidsHint(table, slack) == Len(table) + slack

\* proc_listallpids(pid_buf, pid_buf_size): the number of pids written and
\* the buffer of `capacity` slots; the slots not written keep what the
\* allocation held (0 here; list() does not read them).
ProcListAllPids(table, capacity) ==
    LET n == Min(capacity, Len(table))
    IN  [ n |-> n,
          pid_buf |-> SubSeq(table, 1, n) \o [i \in 1..(capacity - n) |-> 0] ]

\* The variant that loops over the slots counted by the first call.
ListLoopCount_Hint(first, second) == first

\* `for i in range(n)`, n rebound by the second call (lines 482-485)
ListLoopCount(first, second) == second

\* The pids of the handles list() builds (lines 484-488)
ListResult(pid_buf, count) == [i \in 1..count |-> pid_buf[i]]

\* The variant that builds the handle without looking at the list.
GetByPid_NoLookup(pids, pid) == [kind |-> "Process", v |-> Handle(pid)]

\* get_by_pid's loop over the list (lines 397-400)
GetByPid(pids, pid) ==
    IF \E i \in 1..Len(pids) : pids[i] = pid
    THEN [kind |-> "Process", v |-> Handle(pid)]
    ELSE Raise("ArgumentError")

\* The variant in which grep ends like the other lookups.
LookupExhausted_AlwaysRaise(op, found) == Raise("ArgumentError")

\* What a lookup does once its loop is through (lines 408, 416, 425):
\* get_by_basename and get_by_name raise, grep returns its result.
LookupExhausted(op, found) ==
    IF op = "grep" THEN found ELSE Raise("ArgumentError")

ProcIdle ==
    /\ procTable = << >>
    /\ callOp = "none"
    /\ callArg = 0
    /\ callPc = "off"
    /\ callHint = 0
    /\ callCount = 0
    /\ callList = << >>
    /\ callIdx = 0
    /\ callOut = PyNone
    /\ prevList = [valid |-> FALSE, pids |-> << >>]
    /\ fetchTable = << >>

ProcInit ==
    /\ procTable \in { << >>, <<1>>, <<2, 1>> }
    /\ callOp = "none"
    /\ callArg = 0
    /\ callPc = "idle"
    /\ callHint = 0
    /\ callCount = 0
    /\ callList = << >>
    /\ callIdx = 0
    /\ callOut = PyNone
    /\ prevList = [valid |-> FALSE, pids |-> << >>]
    /\ fetchTable = << >>

\* A process is spawned at the remote: the newest pid is listed first.
RemoteSpawn ==
    /\ callPc # "off"
    /\ \E pid \in 1..MaxPid :
        /\ \A i \in 1..Len(procTable) : procTable[i] # pid
        /\ procTable' = <<pid>> \o procTable
    /\ UNCHANGED <<callOp, callArg, callPc, callHint, callCount, callList,
                   callIdx, callOut, prevList, fetchTable>>
    /\ UNCHANGED procOthers

\* A process exits at the remote.
RemoteExit ==
    /\ callPc # "off"
    /\ \E i \in 1..Len(procTable) :
        procTable' = SubSeq(procTable, 1, i - 1)
                        \o SubSeq(procTable, i + 1, Len(procTable))
    /\ UNCHANGED <<callOp, callArg, callPc, callHint, callCount, callList,
                   callIdx, callOut, prevList, fetchTable>>
    /\ UNCHANGED procOthers

\* A method is called (by a caller that has called nothing yet or has just
\* got the result of list()) and makes list()'s first remote call.
Begin(op, arg) ==
    /\ callPc = "idle" \/ (callPc = "done" /\ callOp = "list")
    /\ callOp' = op
    /\ callArg' = arg
    /\ \E slack \in 0..MaxSlack :
           callHint' = ProcListAllPidsHint(procTable, slack)
    /\ callPc' = "sized"
    /\ callCount' = 0
    /\ callList' = << >>
    /\ callIdx' = 0
    /\ callOut' = PyNone
    /\ prevList' = IF callPc = "done"
                   THEN [valid |-> TRUE, pids |-> callList]
                   ELSE [valid |-> FALSE, pids |-> << >>]
    /\ fetchTable' = << >>
    /\ UNCHANGED procTable
    /\ UNCHANGED procOthers

BeginList == Begin("list", 0)

BeginGetByPid == \E pid \in 1..(MaxPid + 1) : Begin("get_by_pid", pid)

BeginLookup ==
    \E op \in {"get_by_basename", "get_by_name", "grep"}, text \in LookupTexts :
        Begin(op, text)

\* list()'s second remote call and the handles built from it
Fetched == ProcListAllPids(procTable, callHint)
FetchedCount == ListLoopCount(callHint, Fetched.n)
FetchedList == ListResult(Fetched.pid_buf, FetchedCount)

\* list(): the second call, and the list is returned (lines 482-488).
FetchForList ==
    /\ callPc = "sized"
    /\ callOp = "list"
    /\ callCount' = Fetched.n
    /\ callList' = FetchedList
    /\ fetchTable' = procTable
    /\ callOut' = PyList([i \in 1..Len(FetchedList) |-> Handle(FetchedList[i])])
    /\ callPc' = "done"
    /\ UNCHANGED <<procTable, callOp, callArg, callHint, callIdx, prevList>>
    /\ UNCHANGED procOthers

\* get_by_pid: the second call of its list(), then its loop, which reads
\* only the pids of the handles (lines 396-400).
FetchForGetByPid ==
    /\ callPc = "sized"
    /\ callOp = "get_by_pid"
    /\ callCount' = Fetched.n
    /\ callList' = FetchedList
    /\ fetchTable' = procTable
    /\ callOut' = GetByPid(FetchedList, callArg)
    /\ callPc' = "done"
    /\ UNCHANGED <<procTable, callOp, callArg, callHint, callIdx, prevList>>
    /\ UNCHANGED procOthers

\* get_by_basename, get_by_name, grep: the second call of their list();
\* their loop queries the remote for each handle.
FetchForLookup ==
    /\ callPc = "sized"
    /\ callOp \in {"get_by_basename", "get_by_name", "grep"}
    /\ callCount' = Fetched.n
    /\ callList' = FetchedList
    /\ fetchTable' = procTable
    /\ callOut' = PyList(<< >>)
    /\ callIdx' = 1
    /\ callPc' = "loop"
    /\ UNCHANGED <<procTable, callOp, callArg, callHint, prevList>>
    /\ UNCHANGED procOthers

\* One iteration of a lookup's loop: the attribute of handle callIdx is
\* fetched from the remote as it is now (lines 405-407, 413-415, 422-424).
LookupExamine ==
    /\ callPc = "loop"
    /\ callIdx <= Len(callList)
    /\ LET pid == callList[callIdx]
           basename == BasenameOf(pid, procTable)
           name == NameOf(pid, procTable)
           found == [kind |-> "Process", v |-> Handle(pid)]
       IN  CASE callOp = "get_by_basename" ->
                  IF basename = callArg
                  THEN callOut' = found /\ callPc' = "done" /\ UNCHANGED callIdx
                  ELSE callIdx' = callIdx + 1 /\ UNCHANGED <<callOut, callPc>>
             [] callOp = "get_by_name" ->
                  IF name.kind = "raise"
                  THEN callOut' = name /\ callPc' = "done" /\ UNCHANGED callIdx
                  ELSE IF name.v = callArg
                  THEN callOut' = found /\ callPc' = "done" /\ UNCHANGED callIdx
                  ELSE callIdx' = callIdx + 1 /\ UNCHANGED <<callOut, callPc>>
             [] callOp = "grep" ->
                  /\ callOut' = IF basename # << >> /\ IsSubstring(callArg, basename)
                                THEN PyList(Append(callOut.v, Handle(pid)))
                                ELSE callOut
                  /\ callIdx' = callIdx + 1
                  /\ UNCHANGED callPc
    /\ UNCHANGED <<procTable, callOp, callArg, callHint, callCount, callList,
                   prevList, fetchTable>>
    /\ UNCHANGED procOthers

\* The loop is through.
LookupDone ==
    /\ callPc = "loop"
    /\ callIdx > Len(callList)
    /\ callOut' = LookupExhausted(callOp, callOut)
    /\ callPc' = "done"
    /\ UNCHANGED <<procTable, callOp, callArg, callHint, callCount, callList,
                   callIdx, prevList, fetchTable>>
    /\ UNCHANGED procOthers

ProcNext ==
    \/ RemoteSpawn
    \/ RemoteExit
    \/ BeginList
    \/ BeginGetByPid
    \/ BeginLookup
    \/ FetchForList
    \/ FetchForGetByPid
    \/ FetchForLookup
    \/ LookupExamine
    \/ LookupDone

-----------------------------------------------------------------------------
(* Bulk scans: DarwinProcesses.fuser, get_process_by_listening_port, lsof.  *)
(*                                                                          *)
(* A scanned process is a handle list() returned together with the fd table *)
(* the remote holds for it when the scan asks for its fds:                  *)
(*   [pid, listOk, listing], listOk and listing as Process.fds takes them.  *)

\* Longest list of processes scanned.
MaxProcs == 2

\* The client's working directory, as Path.parts
Cwd == << "/" >>

\* Path(path).absolute(): a relative path is joined to the working directory
Absolute(path) ==
    IF path # << >> /\ path[1] = "/" THEN path ELSE Cwd \o path

\* isinstance(fd, Ipv4SocketFd) or isinstance(fd, Ipv6SocketFd) (line 438)
IsInetSocketFd(fd) ==
    fd.cls \in {"Ipv4TcpFd", "Ipv4UdpFd", "Ipv6TcpFd", "Ipv6UdpFd"}

\* `except BadReturnValueError: continue` (lines 432, 449, 464)
ScanCaught(exc) == exc = "BadReturnValueError"

RECURSIVE FuserMatches(_, _, _, _)
\* The inner loop of fuser (lines 469-472): the handle once per file
\* descriptor open on `path`.
FuserMatches(fds, j, pid, path) ==
    IF j > Len(fds) THEN << >>
    ELSE (IF fds[j].cls = "FileFd" /\ Absolute(fds[j].path) = Absolute(path)
          THEN << Handle(pid) >> ELSE << >>)
            \o FuserMatches(fds, j + 1, pid, path)

RECURSIVE FuserLoop(_, _, _, _)
\* fuser's loop (lines 461-474) from process i on
FuserLoop(procs, i, path, result) ==
    IF i > Len(procs) THEN PyList(result)
    ELSE LET fds == Fds(procs[i].listOk, procs[i].listing)
         IN  IF fds.kind = "raise"
             THEN IF ScanCaught(fds.v)
                  THEN FuserLoop(procs, i + 1, path, result)
                  ELSE fds
             ELSE FuserLoop(procs, i + 1, path,
                            result \o FuserMatches(fds.v, 1, procs[i].pid, path))

Fuser(procs, path) == FuserLoop(procs, 1, path, << >>)

RECURSIVE GetProcessByListeningPortLoop(_, _, _)
\* get_process_by_listening_port's loop (lines 429-440) from process i on;
\* falling off the end returns None.
GetProcessByListeningPortLoop(procs, i, port) ==
    IF i > Len(procs) THEN PyNone
    ELSE LET fds == Fds(procs[i].listOk, procs[i].listing)
         IN  IF fds.kind = "raise"
             THEN IF ScanCaught(fds.v)
                  THEN GetProcessByListeningPortLoop(procs, i + 1, port)
                  ELSE fds
             ELSE IF \E j \in 1..Len(fds.v) :
                        /\ IsInetSocketFd(fds.v[j])
                        /\ fds.v[j].local_port = port
                        /\ fds.v[j].remote_port = 0
                  THEN [kind |-> "Process", v |-> Handle(procs[i].pid)]
                  ELSE GetProcessByListeningPortLoop(procs, i + 1, port)

GetProcessByListeningPort(procs, port) ==
    GetProcessByListeningPortLoop(procs, 1, port)

RECURSIVE LsofLoop(_, _, _)
\* lsof's loop (lines 445-454) from process i on; the dictionary as the
\* sequence of its items (the pids of a listing differ).
LsofLoop(procs, i, result) ==
    IF i > Len(procs) THEN PyDict(result)
    ELSE LET fds == Fds(procs[i].listOk, procs[i].listing)
         IN  IF fds.kind = "raise"
             THEN IF ScanCaught(fds.v)
                  THEN LsofLoop(procs, i + 1, result)
                  ELSE fds
             ELSE LsofLoop(procs, i + 1,
                           Append(result, Item(procs[i].pid, fds)))

Lsof(procs) == LsofLoop(procs, 1, << >>)

\* ---- the processes the scans are run on

VnodeAt(i, path) ==
    [NoDetail EXCEPT !.proc_fd = FdNumber(i),
                     !.proc_fdtype = "PROX_FDTYPE_VNODE", !.vip_path = path]

SocketAt(i, kind, family, lport, fport) ==
    [NoDetail EXCEPT !.proc_fd = FdNumber(i),
                     !.proc_fdtype = "PROX_FDTYPE_SOCKET",
                     !.soi_kind = kind, !.soi_family = family,
                     !.insi_lport = lport, !.insi_fport = fport]

\* The fd tables of a scanned process: the process is gone; a detail query
\* fails with ESRCH; "/a" open; "/a" open twice; "a" and a pipe; listening
\* on port 80; connected from port 80; a TCP socket of family AF_UNIX; a UDP
\* socket bound to port 80; a UNIX socket.
ScanProfiles ==
    { [listOk |-> FALSE, listing |-> << >>],
      [listOk |-> TRUE,
       listing |-> << [VnodeAt(1, <<"/", "a">>) EXCEPT !.errno = "ESRCH"] >>],
      [listOk |-> TRUE, listing |-> << VnodeAt(1, <<"/", "a">>) >>],
      [listOk |-> TRUE,
       listing |-> << VnodeAt(1, <<"/", "a">>), VnodeAt(2, <<"/", "a">>) >>],
      [listOk |-> TRUE,
       listing |-> << VnodeAt(1, <<"a">>),
                      [NoDetail EXCEPT !.proc_fd = FdNumber(2),
                                       !.proc_fdtype = "PROX_FDTYPE_PIPE"] >>],
      [listOk |-> TRUE,
       listing |-> << SocketAt(1, "SOCKINFO_TCP", "AF_INET", 80, 0) >>],
      [listOk |-> TRUE,
       listing |-> << SocketAt(1, "SOCKINFO_TCP", "AF_INET6", 80, 5) >>],
      [listOk |-> TRUE,
       listing |-> << SocketAt(1, "SOCKINFO_TCP", "AF_UNIX", 80, 0) >>],
      [listOk |-> TRUE,
       listing |-> << SocketAt(1, "SOCKINFO_IN", "AF_INET6", 80, 0) >>],
      [listOk |-> TRUE,
       listing |-> << [SocketAt(1, "SOCKINFO_UN", "AF_UNIX", 80, 0)
                          EXCEPT !.sun_path = <<"/", "s">>] >>] }

\* The pid of the i-th process listed
ScanPid(i) == 10 + i

ScanLists ==
    UNION { { [i \in 1..n |-> [pid |-> ScanPid(i),
                               listOk |-> profiles[i].listOk,
                               listing |-> profiles[i].listing]] :
                profiles \in [1..n -> ScanProfiles] } : n \in 0..MaxProcs }

ScanPaths == { <<"/", "a">>, <<"a">>, <<"/", "b">> }
ScanPorts == { 80, 81 }

ScanIdle ==
    /\ scanProcs = << >>
    /\ scanOp = "none"
    /\ scanArg = 0
    /\ scanPc = "idle"
    /\ scanOut = PyNone

ScanInit ==
    /\ scanProcs \in ScanLists
    /\ scanOp = "none"
    /\ scanArg = 0
    /\ scanPc = "call"
    /\ scanOut = PyNone

CallFuser ==
    /\ scanPc = "call"
    /\ \E path \in ScanPaths :
        /\ scanArg' = path
        /\ scanOut' = Fuser(scanProcs, path)
    /\ scanOp' = "fuser"
    /\ scanPc' = "done"
    /\ UNCHANGED scanProcs
    /\ UNCHANGED scanOthers

CallGetProcessByListeningPort ==
    /\ scanPc = "call"
    /\ \E port \in ScanPorts :
        /\ scanArg' = port
        /\ scanOut' = GetProcessByListeningPort(scanProcs, port)
    /\ scanOp' = "get_process_by_listening_port"
    /\ scanPc' = "done"
    /\ UNCHANGED scanProcs
    /\ UNCHANGED scanOthers

CallLsof ==
    /\ scanPc = "call"
    /\ scanArg' = 0
    /\ scanOut' = Lsof(scanProcs)
    /\ scanOp' = "lsof"
    /\ scanPc' = "done"
    /\ UNCHANGED scanProcs
    /\ UNCHANGED scanOthers

-----------------------------------------------------------------------------
(* decode_cf, call by call: the temporary remote data object.               *)
(*                                                                          *)
(* decode_cf makes five remote calls in a row (serialize, CFDataGetLength,  *)
(* CFDataGetBytePtr, peek, release) and parses locally in between.  A       *)
(* remote call or the peek can fail (the exception is the client's          *)
(* RpcClientException); plistlib.loads raises InvalidFileException for a    *)
(* property list it cannot represent.                                       *)

\* A remote NSDate later than year 9999: NSPropertyListSerialization writes
\* it, plistlib.loads raises InvalidFileException for it.
FarDate == Plist("date after 9999", "NSDate")

\* plistlib.loads raises for this property list
ParseRaises(p) == p.t = "date after 9999"

\* The remote objects decode_cf is called on are FarDate and what cf built
\* from these Python objects (kCFNull from None).
DecodeObjects ==
    { x \in {PyNone} \cup CfLeaves \cup CfLists : Cf(x).t # "raise" }

\* dataWithPropertyList_format_options_error_ answers 0 for an object that
\* is no property list (line 131)
SerializesToNull(symbol) == symbol.t = "kCFNull"

DecodeIdle ==
    /\ dcSymbol = kCFNull
    /\ dcPc = "idle"
    /\ dcData = FALSE
    /\ dcReleases = 0
    /\ dcOut = PyNone

DecodeInit ==
    /\ \/ \E o \in DecodeObjects : dcSymbol = Cf(o)
       \/ dcSymbol = FarDate
    /\ dcPc = "serialize"
    /\ dcData = FALSE
    /\ dcReleases = 0
    /\ dcOut = PyNone

\* Lines 129-132: the serialization call; a null result returns None.
DecodeSerialize ==
    /\ dcPc = "serialize"
    /\ IF SerializesToNull(dcSymbol)
       THEN dcData' = FALSE /\ dcPc' = "done" /\ dcOut' = PyNone
       ELSE dcData' = TRUE /\ dcPc' = "CFDataGetLength" /\ UNCHANGED dcOut
    /\ UNCHANGED <<dcSymbol, dcReleases>>
    /\ UNCHANGED dcOthers

\* Line 133: count = CFDataGetLength(objc_data)
DecodeGetLength ==
    /\ dcPc = "CFDataGetLength"
    /\ dcPc' = "CFDataGetBytePtr"
    /\ UNCHANGED <<dcSymbol, dcData, dcReleases, dcOut>>
    /\ UNCHANGED dcOthers

\* Line 134: CFDataGetBytePtr(objc_data)
DecodeGetBytePtr ==
    /\ dcPc = "CFDataGetBytePtr"
    /\ dcPc' = "peek"
    /\ UNCHANGED <<dcSymbol, dcData, dcReleases, dcOut>>
    /\ UNCHANGED dcOthers

\* Line 134: .peek(count)
DecodePeek ==
    /\ dcPc = "peek"
    /\ dcPc' = "loads"
    /\ UNCHANGED <<dcSymbol, dcData, dcReleases, dcOut>>
    /\ UNCHANGED dcOthers

\* Line 134: one of the two remote calls or the peek raises, and the
\* exception leaves decode_cf (no try/finally around lines 133-135).
DecodeRemoteCallRaises ==
    /\ dcPc \in {"CFDataGetLength", "CFDataGetBytePtr", "peek"}
    /\ dcOut' = Raise("RpcClientException")
    /\ dcPc' = "done"
    /\ UNCHANGED <<dcSymbol, dcData, dcReleases>>
    /\ UNCHANGED dcOthers

\* Line 134: plistlib.loads; its exception leaves decode_cf too.
DecodeLoads ==
    /\ dcPc = "loads"
    /\ IF ParseRaises(dcSymbol)
       THEN dcOut' = Raise("InvalidFileException") /\ dcPc' = "done"
       ELSE dcOut' = PlistLoads(RemoteSerialize(dcSymbol)) /\ dcPc' = "release"
    /\ UNCHANGED <<dcSymbol, dcData, dcReleases>>
    /\ UNCHANGED dcOthers

\* Lines 135-136: objc_data.objc_call('release'); return result
DecodeRelease ==
    /\ dcPc = "release"
    /\ dcReleases' = dcReleases + 1
    /\ dcPc' = "done"
    /\ UNCHANGED <<dcSymbol, dcData, dcOut>>
    /\ UNCHANGED dcOthers

-----------------------------------------------------------------------------
(* Reflection protocol: DarwinClient.showobject and showclass.              *)
(*                                                                          *)
(* Two callers share the client: its socket and its protocol lock.  The     *)
(* server answers the commands in the order received; an answer is an       *)
(* 8-byte length L and L payload bytes.  The stream is a sequence of items, *)
(* one for the 8 length bytes and one per payload byte, each carrying the   *)
(* command it answers.  The socket, the lock object and _recvall belong to  *)
(* the base Client class; _recvall is modelled as the specification states  *)
(* it: it reads exactly the bytes asked for and raises ProtocolError when   *)
(* the connection closes before that.                                       *)

Callers == {1, 2}

\* Longest payload of an answer.
MaxPayload == 2
MaxCalls == 1

\* protocol_message_t.build({'cmd_type': ..., 'data': {'address': ...}})
Message(cmd_type, addr) == [cmd_type |-> cmd_type, address |-> addr]
NoMessage == Message("none", 0)

Messages ==
    { Message(cmd_type, addr) :
        cmd_type \in {"CMD_SHOWOBJECT", "CMD_SHOWCLASS"}, addr \in {1, 2} }

LengthItem(msg, n) == [kind |-> "length", n |-> n, msg |-> msg]
PayloadItem(msg, i) == [kind |-> "payload", n |-> i, msg |-> msg]
GarbageItem(msg, i) == [kind |-> "garbage", n |-> i, msg |-> msg]

\* The answer to msg declaring n payload bytes, `sent` of them written
Answer(msg, n, sent) ==
    <<LengthItem(msg, n)>> \o [i \in 1..sent |-> PayloadItem(msg, i)]

\* The steps of an exchange, in order
StepNo(step) ==
    CASE step = "sendall" -> 1 [] step = "recv_len" -> 2
      [] step = "recv_payload" -> 3

\* The variant whose with-block holds the send only.
WithBlockEnd_AfterSend == "sendall"

\* The last statement inside `with self._protocol_lock:` (lines 107-110,
\* 118-121)
WithBlockEnd == "recv_payload"

\* The lock after caller c has completed `step`: leaving the with-block
\* releases it.
LockAfter(step, lock) == IF step = WithBlockEnd THEN 0 ELSE lock

\* The variant in which an exception leaves the lock held.
LockAfterRaise_Held(step, lock) == lock

\* The lock after `step` has raised: an exception raised inside the
\* with-block releases it on the way out.
LockAfterRaise(step, lock) ==
    IF StepNo(step) <= StepNo(WithBlockEnd) THEN 0 ELSE lock

\* The variant of _recvall that returns what it has when the connection
\* closes.
RecvAllAtEof_ReturnShort(buffered) == [kind |-> "bytes", v |-> buffered]

\* _recvall when the connection closes before all the bytes have come
RecvAllAtEof(buffered) == Raise("ProtocolError")

\* _recvall when no byte comes in time
RecvAllTimeout == Raise("ProtocolError")

\* json.loads(response): the mapping the payload holds; bytes that are no
\* JSON document raise.
JsonLoads(response) ==
    IF \E i \in 1..Len(response) : response[i].kind # "payload"
    THEN Raise("JSONDecodeError")
    ELSE [kind |-> "Mapping", v |-> response]

ReflectIdle ==
    /\ rfPc = [c \in Callers |-> "off"]
    /\ rfCmd = [c \in Callers |-> NoMessage]
    /\ rfLock = 0
    /\ rfSent = << >>
    /\ rfStream = << >>
    /\ rfClosed = FALSE
    /\ rfLen = [c \in Callers |-> 0]
    /\ rfBuf = [c \in Callers |-> << >>]
    /\ rfOut = [c \in Callers |-> PyNone]
    /\ rfCalls = 0
    /\ rfFailed = FALSE
    /\ rfAfter = [c \in Callers |-> FALSE]

ReflectInit ==
    /\ rfPc = [c \in Callers |-> "call"]
    /\ rfCmd = [c \in Callers |-> NoMessage]
    /\ rfLock = 0
    /\ rfSent = << >>
    /\ rfStream = << >>
    /\ rfClosed = FALSE
    /\ rfLen = [c \in Callers |-> 0]
    /\ rfBuf = [c \in Callers |-> << >>]
    /\ rfOut = [c \in Callers |-> PyNone]
    /\ rfCalls = 0
    /\ rfFailed = FALSE
    /\ rfAfter = [c \in Callers |-> FALSE]

\* showobject(address) / showclass(address) is called: the message is built
\* (lines 103-106, 114-117).  Caller c asks about address c.
ReflectCall(c) ==
    /\ rfPc[c] = "call"
    /\ \E msg \in { m \in Messages : m.address = c } :
           rfCmd' = [rfCmd EXCEPT ![c] = msg]
    /\ rfPc' = [rfPc EXCEPT ![c] = "acquire"]
    /\ UNCHANGED <<rfLock, rfSent, rfStream, rfClosed, rfLen, rfBuf, rfOut>>
    /\ UNCHANGED <<rfCalls, rfFailed, rfAfter>>
    /\ UNCHANGED rfOthers

\* `with self._protocol_lock:` is entered once the lock is free.
ReflectAcquire(c) ==
    /\ rfPc[c] = "acquire"
    /\ rfLock = 0
    /\ rfLock' = c
    /\ rfPc' = [rfPc EXCEPT ![c] = "sendall"]
    /\ UNCHANGED <<rfCmd, rfSent, rfStream, rfClosed, rfLen, rfBuf, rfOut>>
    /\ rfAfter' = [rfAfter EXCEPT ![c] = rfFailed]
    /\ UNCHANGED <<rfCalls, rfFailed>>
    /\ UNCHANGED rfOthers

\* self._sock.sendall(message) (lines 108, 119)
ReflectSendAll(c) ==
    /\ rfPc[c] = "sendall"
    /\ ~rfClosed
    /\ rfSent' = Append(rfSent, rfCmd[c])
    /\ rfLock' = LockAfter("sendall", rfLock)
    /\ rfPc' = [rfPc EXCEPT ![c] = "recv_len"]
    /\ UNCHANGED <<rfCmd, rfStream, rfClosed, rfLen, rfBuf, rfOut>>
    /\ UNCHANGED <<rfCalls, rfFailed, rfAfter>>
    /\ UNCHANGED rfOthers

\* sendall on a closed connection raises.
ReflectSendAllClosed(c) ==
    /\ rfPc[c] = "sendall"
    /\ rfClosed
    /\ rfOut' = [rfOut EXCEPT ![c] = Raise("ConnectionError")]
    /\ rfLock' = LockAfterRaise("sendall", rfLock)
    /\ rfPc' = [rfPc EXCEPT ![c] = "done"]
    /\ UNCHANGED <<rfCmd, rfSent, rfStream, rfClosed, rfLen, rfBuf>>
    /\ rfFailed' = TRUE
    /\ UNCHANGED <<rfCalls, rfAfter>>
    /\ UNCHANGED rfOthers

\* response_len = Int64sl.parse(self._recvall(Int64sl.sizeof())) (lines
\* 109, 120).  Eight bytes that are no length prefix parse to some length.
ReflectRecvLen(c) ==
    /\ rfPc[c] = "recv_len"
    /\ rfStream # << >>
    /\ IF Head(rfStream).kind = "length"
       THEN rfLen' = [rfLen EXCEPT ![c] = Head(rfStream).n]
       ELSE \E n \in 1..MaxPayload : rfLen' = [rfLen EXCEPT ![c] = n]
    /\ rfStream' = Tail(rfStream)
    /\ rfLock' = LockAfter("recv_len", rfLock)
    /\ rfPc' = [rfPc EXCEPT ![c] = "recv_payload"]
    /\ UNCHANGED <<rfCmd, rfSent, rfClosed, rfBuf, rfOut>>
    /\ UNCHANGED <<rfCalls, rfFailed, rfAfter>>
    /\ UNCHANGED rfOthers

\* The connection closes before the length prefix has come.
ReflectRecvLenEof(c) ==
    /\ rfPc[c] = "recv_len"
    /\ rfStream = << >>
    /\ rfClosed
    /\ rfOut' = [rfOut EXCEPT ![c] = Raise("ProtocolError")]
    /\ rfLock' = LockAfterRaise("recv_len", rfLock)
    /\ rfPc' = [rfPc EXCEPT ![c] = "done"]
    /\ UNCHANGED <<rfCmd, rfSent, rfStream, rfClosed, rfLen, rfBuf>>
    /\ rfFailed' = TRUE
    /\ UNCHANGED <<rfCalls, rfAfter>>
    /\ UNCHANGED rfOthers

\* response = self._recvall(response_len) (lines 110, 121): one recv of the
\* loop, which takes some of the bytes that have come; with the last byte
\* _recvall returns and the with-block is left.
ReflectRecvChunk(c) ==
    /\ rfPc[c] = "recv_payload"
    /\ rfStream # << >>
    /\ \E k \in 1..Min(Len(rfStream), rfLen[c] - Len(rfBuf[c])) :
        /\ rfBuf' = [rfBuf EXCEPT ![c] = @ \o SubSeq(rfStream, 1, k)]
        /\ rfStream' = SubSeq(rfStream, k + 1, Len(rfStream))
        /\ IF Len(rfBuf[c]) + k = rfLen[c]
           THEN /\ rfPc' = [rfPc EXCEPT ![c] = "loads"]
                /\ rfLock' = LockAfter("recv_payload", rfLock)
           ELSE UNCHANGED <<rfPc, rfLock>>
    /\ UNCHANGED <<rfCmd, rfSent, rfClosed, rfLen, rfOut>>
    /\ UNCHANGED <<rfCalls, rfFailed, rfAfter>>
    /\ UNCHANGED rfOthers

\* The connection closes before response_len bytes have come.
ReflectRecvPayloadEof(c) ==
    /\ rfPc[c] = "recv_payload"
    /\ rfStream = << >>
    /\ rfClosed
    /\ LET response == RecvAllAtEof(rfBuf[c])
       IN  IF response.kind = "raise"
           THEN /\ rfOut' = [rfOut EXCEPT ![c] = response]
                /\ rfLock' = LockAfterRaise("recv_payload", rfLock)
                /\ rfPc' = [rfPc EXCEPT ![c] = "done"]
           ELSE /\ rfPc' = [rfPc EXCEPT ![c] = "loads"]
                /\ rfLock' = LockAfter("recv_payload", rfLock)
                /\ UNCHANGED rfOut
    /\ UNCHANGED <<rfCmd, rfSent, rfStream, rfClosed, rfLen, rfBuf>>
    /\ rfFailed' = (rfFailed \/ RecvAllAtEof(rfBuf[c]).kind = "raise")
    /\ UNCHANGED <<rfCalls, rfAfter>>
    /\ UNCHANGED rfOthers

\* No byte comes while _recvall waits, on a connection that stays open:
\* the read times out.  The request that got no answer in time gets none
\* later: the server has dropped it.
ReflectRecvTimeout(c) ==
    /\ rfPc[c] \in {"recv_len", "recv_payload"}
    /\ rfStream = << >>
    /\ ~rfClosed
    /\ rfSent' = << >>
    /\ rfOut' = [rfOut EXCEPT ![c] = RecvAllTimeout]
    /\ rfLock' = LockAfterRaise(rfPc[c], rfLock)
    /\ rfPc' = [rfPc EXCEPT ![c] = "done"]
    /\ rfFailed' = TRUE
    /\ UNCHANGED <<rfCmd, rfStream, rfClosed, rfLen, rfBuf, rfCalls, rfAfter>>
    /\ UNCHANGED rfOthers

\* return json.loads(response) (lines 111, 122), outside the with-block
ReflectLoads(c) ==
    /\ rfPc[c] = "loads"
    /\ rfOut' = [rfOut EXCEPT ![c] = JsonLoads(rfBuf[c])]
    /\ rfPc' = [rfPc EXCEPT ![c] = "done"]
    /\ UNCHANGED <<rfCmd, rfLock, rfSent, rfStream, rfClosed, rfLen, rfBuf>>
    /\ rfFailed' = (rfFailed \/ JsonLoads(rfBuf[c]).kind = "raise")
    /\ UNCHANGED <<rfCalls, rfAfter>>
    /\ UNCHANGED rfOthers

\* The caller, back from a call, makes another one.
ReflectCallAgain(c) ==
    /\ rfPc[c] = "done"
    /\ rfCalls < MaxCalls
    /\ rfCalls' = rfCalls + 1
    /\ rfPc' = [rfPc EXCEPT ![c] = "call"]
    /\ rfCmd' = [rfCmd EXCEPT ![c] = NoMessage]
    /\ rfLen' = [rfLen EXCEPT ![c] = 0]
    /\ rfBuf' = [rfBuf EXCEPT ![c] = << >>]
    /\ rfOut' = [rfOut EXCEPT ![c] = PyNone]
    /\ rfAfter' = [rfAfter EXCEPT ![c] = FALSE]
    /\ UNCHANGED <<rfLock, rfSent, rfStream, rfClosed, rfFailed>>
    /\ UNCHANGED rfOthers

\* The server answers the oldest command not yet answered.
ServerAnswers ==
    /\ ~rfClosed
    /\ rfSent # << >>
    /\ \E n \in 1..MaxPayload :
           rfStream' = rfStream \o Answer(Head(rfSent), n, n)
    /\ rfSent' = Tail(rfSent)
    /\ UNCHANGED <<rfPc, rfCmd, rfLock, rfClosed, rfLen, rfBuf, rfOut>>
    /\ UNCHANGED <<rfCalls, rfFailed, rfAfter>>
    /\ UNCHANGED rfOthers

\* The server answers with a payload that is no JSON document.
ServerAnswersUnparsable ==
    /\ ~rfClosed
    /\ rfSent # << >>
    /\ rfStream' = rfStream \o <<LengthItem(Head(rfSent), 1),
                                  GarbageItem(Head(rfSent), 1)>>
    /\ rfSent' = Tail(rfSent)
    /\ UNCHANGED <<rfPc, rfCmd, rfLock, rfClosed, rfLen, rfBuf, rfOut>>
    /\ UNCHANGED <<rfCalls, rfFailed, rfAfter>>
    /\ UNCHANGED rfOthers

\* The server writes the length and fewer payload bytes than it declares,
\* and the connection closes.
ServerAnswersShort ==
    /\ ~rfClosed
    /\ rfSent # << >>
    /\ \E n \in 1..MaxPayload, sent \in 0..(MaxPayload - 1) :
        /\ sent < n
        /\ rfStream' = rfStream \o Answer(Head(rfSent), n, sent)
    /\ rfSent' = Tail(rfSent)
    /\ rfClosed' = TRUE
    /\ UNCHANGED <<rfPc, rfCmd, rfLock, rfLen, rfBuf, rfOut>>
    /\ UNCHANGED <<rfCalls, rfFailed, rfAfter>>
    /\ UNCHANGED rfOthers

\* The connection closes between two answers.
ServerCloses ==
    /\ ~rfClosed
    /\ rfClosed' = TRUE
    /\ UNCHANGED <<rfPc, rfCmd, rfLock, rfSent, rfStream, rfLen, rfBuf, rfOut>>
    /\ UNCHANGED <<rfCalls, rfFailed, rfAfter>>
    /\ UNCHANGED rfOthers

ReflectCallerNext(c) ==
    \/ ReflectCall(c)
    \/ ReflectAcquire(c)
    \/ ReflectSendAll(c)
    \/ ReflectSendAllClosed(c)
    \/ ReflectRecvLen(c)
    \/ ReflectRecvLenEof(c)
    \/ ReflectRecvChunk(c)
    \/ ReflectRecvPayloadEof(c)
    \/ ReflectRecvTimeout(c)
    \/ ReflectLoads(c)
    \/ ReflectCallAgain(c)

ReflectNext ==
    \/ \E c \in Callers : ReflectCallerNext(c)
    \/ ServerAnswers
    \/ ServerAnswersUnparsable
    \/ ServerAnswersShort
    \/ ServerCloses

-----------------------------------------------------------------------------
(* Task and thread calls: the operations of Process and Thread that hand   *)
(* scoped buffers to a Mach or libproc call.  An operation runs as one     *)
(* step; tkAlive counts the scoped buffers that are still allocated.       *)

MaxPeekSize == 2
MaxImages   == 2
MaxAlive    == 3

\* What a Mach call returns: KERN_SUCCESS (0) or an error
MachStatuses == {0, 5}

Arches == {"ARCH_ARM64", "ARCH_AMD64"}

\* Process.__init__ (lines 160-163): the thread class of the client's
\* architecture
ThreadClass(arch) ==
    IF arch = "ARCH_ARM64" THEN "ArmThread64" ELSE "IntelThread64"

\* The variant of the scoped allocator that frees only when the block ends
\* without an exception.
SafeMallocExit_OnReturnOnly(alive, outcome) ==
    IF outcome.kind = "raise" THEN alive ELSE alive - 1

\* Leaving a `with safe_malloc(...)` block, whatever way: the buffer is
\* freed.
SafeMallocExit(alive, outcome) == alive - 1

\* `with safe_malloc(..) as a: with safe_malloc(..) as b: ...`: the number
\* of buffers alive after n nested blocks whose body ended with `outcome`
RECURSIVE WithSafeMalloc(_, _, _)
WithSafeMalloc(n, alive, outcome) ==
    IF n = 0 THEN alive
    ELSE SafeMallocExit(WithSafeMalloc(n - 1, alive + 1, outcome), outcome)

\* The blocks of an operation run one after another.
RECURSIVE RunBlocks(_, _)
RunBlocks(blocks, alive) ==
    IF blocks = << >> THEN alive
    ELSE RunBlocks(Tail(blocks),
                   WithSafeMalloc(Head(blocks).n, alive, Head(blocks).outcome))

Block(n, outcome) == [n |-> n, outcome |-> outcome]

RECURSIVE Acquired(_)
Acquired(blocks) ==
    IF blocks = << >> THEN 0 ELSE Head(blocks).n + Acquired(Tail(blocks))

\* Process.task (lines 340-345)
Task(status) ==
    IF status # 0 THEN Raise("BadReturnValueError")
    ELSE [kind |-> "int", v |-> 1]

\* Process.peek (lines 173-179), at the level of vm_read: `status` is what
\* vm_read returned, `reported` the length it stored through p_size, and
\* `data` the `size` bytes then found at p_buf[0].  p_size is not read.
MachPeek(status, reported, n_bytes, data) ==
    IF status # 0 THEN Raise("BadReturnValueError")
    ELSE [kind |-> "bytes", v |-> data]

\* Process.peek_str (lines 181-193) from start to end, on a string that is
\* mapped (and holds `text` before its NUL) or is not: when every chunk
\* peek fails, size reaches 0 and the function falls off its loop.
PeekStrResult(str) ==
    IF str.readable THEN PyStr(str.text) ELSE PyNone

Image(load_address, path) == [address |-> load_address, path |-> path]

\* Process.images (lines 200-218): `status` is what task_info returned,
\* `header` and `array` say whether the all_image_infos header and the
\* image array can be read, `paths` are the path strings of the images.
Images(status, header, array, paths) ==
    IF status # 0 THEN Raise("BadReturnValueError")
    ELSE IF ~header THEN Raise("BadReturnValueError")
    ELSE IF ~array THEN Raise("BadReturnValueError")
    ELSE [kind |-> "list",
          v |-> [i \in 1..Len(paths) |-> Image(i, PeekStrResult(paths[i]))]]

\* The blocks images goes through: the task_info block, then the blocks
\* of each peek it gets to.
ImagesBlocks(status, header, array, paths) ==
    <<Block(2, IF status # 0 THEN Raise("BadReturnValueError") ELSE PyNone)>>
    \o (IF status # 0 THEN << >>
        ELSE <<Block(2, MachPeek(IF header THEN 0 ELSE 5, 0, 0, << >>))>>)
    \o (IF status # 0 \/ ~header THEN << >>
        ELSE <<Block(2, MachPeek(IF array THEN 0 ELSE 5, 0, 0, << >>))>>)
    \o (IF status # 0 \/ ~header \/ ~array THEN << >>
        ELSE [i \in 1..Len(paths) |->
                 Block(2, MachPeek(IF paths[i].readable THEN 0 ELSE 5,
                                   0, 0, << >>))])

\* The variant of get_state that decodes the block whatever the status.
GetState_IgnoreStatus(class, status, regs) ==
    [kind |-> "state", class |-> class, v |-> regs]

\* IntelThread64.get_state (lines 120-127), ArmThread64.get_state (lines
\* 137-144)
GetState(class, status, regs) ==
    IF class = "IntelThread64"
    THEN IF status # 0 THEN Raise("BadReturnValueError")
         ELSE [kind |-> "state", class |-> "IntelThread64", v |-> regs]
    ELSE IF status # 0 THEN Raise("BadReturnValueError")
         ELSE [kind |-> "state", class |-> "ArmThread64", v |-> regs]

\* IntelThread64.set_state (lines 129-133), ArmThread64.set_state (lines
\* 146-150)
SetState(class, status) ==
    IF class = "IntelThread64"
    THEN IF status # 0 THEN Raise("BadReturnValueError") ELSE PyNone
    ELSE IF status # 0 THEN Raise("BadReturnValueError") ELSE PyNone

\* Process.threads (lines 220-231)
Threads(class, status, tids) ==
    IF status # 0 THEN Raise("BadReturnValueError")
    ELSE [kind |-> "list", v |-> [i \in 1..Len(tids) |-> [class |-> class, tid |-> tids[i]]]]

\* Process.task_all_info (lines 332-338): proc_pidinfo returns the number
\* of bytes it wrote, 0 on failure
TaskAllInfo(written) ==
    IF written = 0 THEN Raise("BadReturnValueError")
    ELSE [kind |-> "proc_taskallinfo", v |-> written]

\* Process.path (lines 346-354)
Path(path_len, text) ==
    IF path_len = 0 THEN PyNone ELSE PyStr(text)

\* What the remote side does during one operation
Remote0 ==
    [status |-> 0, reported |-> 0, size |-> 0, data |-> << >>,
     header |-> TRUE, array |-> TRUE, paths |-> << >>, arch |-> "ARCH_ARM64"]

PeekBytes == {0, 65}
PeekData(n_bytes) == [1..n_bytes -> PeekBytes]

PathStrings ==
    { [readable |-> TRUE, text |-> "/usr/lib/dyld"],
      [readable |-> TRUE, text |-> "/usr/lib/libSystem.B.dylib"],
      [readable |-> FALSE, text |-> ""] }
RECURSIVE PathLists(_)
PathLists(n) ==
    IF n = 0 THEN { << >> }
    ELSE PathLists(n - 1)
         \cup { Append(l, p) : l \in { m \in PathLists(n - 1) : Len(m) = n - 1 },
                               p \in PathStrings }

TaskIdle ==
    /\ tkOp = "off"
    /\ tkRemote = Remote0
    /\ tkOut = PyNone
    /\ tkAlive = 0
    /\ tkAcquired = 0

\* Before the first operation
TaskInit ==
    /\ tkOp = "none"
    /\ tkRemote = Remote0
    /\ tkOut = PyNone
    /\ tkAlive = 0
    /\ tkAcquired = 0

\* One operation from start to end: its outcome, and its blocks
Operation(op, remote, out, blocks) ==
    /\ tkOp' = op
    /\ tkRemote' = remote
    /\ tkOut' = out
    /\ tkAlive' = RunBlocks(blocks, tkAlive)
    /\ tkAcquired' = Acquired(blocks)

\* An operation can start: the client is in use, and the count of
\* buffers is within bounds.
TaskReady ==
    /\ tkOp # "off"
    /\ tkAlive < MaxAlive

CallPeek ==
    /\ TaskReady
    /\ \E st \in MachStatuses, n_bytes \in 1..MaxPeekSize :
         \E reported \in 0..MaxPeekSize, data \in PeekData(n_bytes) :
           LET out == MachPeek(st, reported, n_bytes, data)
           IN  Operation("peek",
                         [Remote0 EXCEPT !.status = st, !.reported = reported,
                                         !.size = n_bytes, !.data = data],
                         out, <<Block(2, out)>>)
    /\ UNCHANGED tkOthers

CallImages ==
    /\ TaskReady
    /\ \E st \in MachStatuses, header \in BOOLEAN, array \in BOOLEAN :
         \E paths \in PathLists(MaxImages) :
           Operation("images",
                     [Remote0 EXCEPT !.status = st, !.header = header,
                                     !.array = array, !.paths = paths],
                     Images(st, header, array, paths),
                     ImagesBlocks(st, header, array, paths))
    /\ UNCHANGED tkOthers

CallThreads ==
    /\ TaskReady
    /\ \E arch \in Arches, st \in MachStatuses, tids \in {<< >>, <<7>>, <<7, 8>>} :
           LET out == Threads(ThreadClass(arch), st, tids)
           IN  Operation("threads",
                         [Remote0 EXCEPT !.status = st, !.arch = arch, !.data = tids],
                         out, <<Block(2, out)>>)
    /\ UNCHANGED tkOthers

CallGetState ==
    /\ TaskReady
    /\ \E arch \in Arches, st \in MachStatuses, regs \in PeekData(1) :
           LET out == GetState(ThreadClass(arch), st, regs)
           IN  Operation("get_state",
                         [Remote0 EXCEPT !.status = st, !.arch = arch, !.data = regs],
                         out, <<Block(2, out)>>)
    /\ UNCHANGED tkOthers

CallSetState ==
    /\ TaskReady
    /\ \E arch \in Arches, st \in MachStatuses, regs \in PeekData(1) :
           Operation("set_state",
                     [Remote0 EXCEPT !.status = st, !.arch = arch, !.data = regs],
                     SetState(ThreadClass(arch), st), << >>)
    /\ UNCHANGED tkOthers

CallTask ==
    /\ TaskReady
    /\ \E st \in MachStatuses :
           LET out == Task(st)
           IN  Operation("task", [Remote0 EXCEPT !.status = st],
                         out, <<Block(1, out)>>)
    /\ UNCHANGED tkOthers

CallTaskAllInfo ==
    /\ TaskReady
    /\ \E written \in {0, 1} :
           LET out == TaskAllInfo(written)
           IN  Operation("task_all_info", [Remote0 EXCEPT !.size = written],
                         out, <<Block(1, out)>>)
    /\ UNCHANGED tkOthers

CallPath ==
    /\ TaskReady
    /\ \E path_len \in {0, 1} :
           LET out == Path(path_len, "/bin/ls")
           IN  Operation("path", [Remote0 EXCEPT !.size = path_len],
                         out, <<Block(1, out)>>)
    /\ UNCHANGED tkOthers

\* ProcessesList.list (lines 476-488): its buffer is one block
CallList ==
    /\ TaskReady
    /\ \E pids \in {<< >>, <<1>>, <<1, 2>>} :
           LET out == PyList(ListResult(pids, Len(pids)))
           IN  Operation("list", [Remote0 EXCEPT !.data = pids],
                         out, <<Block(1, out)>>)
    /\ UNCHANGED tkOthers

\* Process.fd_structs (lines 271-330): vi_buf and fdinfo_buf are two
\* nested blocks around the whole body
CallFdStructsBuffers ==
    /\ TaskReady
    /\ \E listOk \in BOOLEAN, listing \in { l \in RawListings : Len(l) <= 1 } :
           LET out == FdStructs(listOk, listing)
           IN  Operation("fd_structs",
                         [Remote0 EXCEPT !.header = listOk, !.data = listing],
                         out, <<Block(2, out)>>)
    /\ UNCHANGED tkOthers

TaskNext ==
    \/ CallPeek
    \/ CallImages
    \/ CallThreads
    \/ CallGetState
    \/ CallSetState
    \/ CallTask
    \/ CallTaskAllInfo
    \/ CallPath
    \/ CallList
    \/ CallFdStructsBuffers

-----------------------------------------------------------------------------
(* The attributes of a Process handle: which reads go to the remote.        *)

MaxReads == 3

\* What the remote holds under the handle's pid: a process, the process
\* that took its place (or the same one after it changed), or nothing.
RemoteStates == {"first", "second", "gone"}

\* @cached_property (lines 340-385)
MemoizedAttrs ==
    {"task", "path", "basename", "name", "ppid", "uid", "gid", "ruid", "rgid"}
\* @property (lines 199, 219, 237)
FreshAttrs == {"images", "threads", "fds"}

\* The variant in which every attribute is a plain property.
Decorator_AllProperty(attr) == "property"

Decorator(attr) ==
    IF attr \in MemoizedAttrs THEN "cached_property" ELSE "property"

Unset == [kind |-> "unset", v |-> << >>]
Value(attr, remote) == [kind |-> "value", v |-> <<attr, remote>>]

\* What a read did: its outcome, the remote calls it issued, the cache it
\* leaves, and the attribute reads it went through, its own last.
ReadResult(out, calls, cache, reads) ==
    [out |-> out, calls |-> calls, cache |-> cache, reads |-> reads]

\* The body of an attribute out of the remote alone: its outcome and the
\* remote calls it issues.  task (lines 341-345): mach_task_self and
\* task_for_pid.  path (lines 347-354): proc_pidpath, then a peek of the
\* bytes.  name .. rgid (lines 363-385): proc_pidinfo of task_all_info
\* (lines 332-338).  images, threads, fds: at least the first query.
Query(attr, remote) ==
    CASE attr = "task" ->
           [out |-> IF remote = "gone" THEN Raise("BadReturnValueError")
                    ELSE Value(attr, remote),
            calls |-> 2]
      [] attr = "path" ->
           IF remote = "gone" THEN [out |-> PyNone, calls |-> 1]
           ELSE [out |-> Value(attr, remote), calls |-> 2]
      [] OTHER ->
           [out |-> IF remote = "gone" THEN Raise("BadReturnValueError")
                    ELSE Value(attr, remote),
            calls |-> 1]

\* cached_property.__get__: the value kept in the instance, else the body,
\* whose value is kept when it returns one.  A plain property runs the
\* body.
Get(attr, cache, body) ==
    IF Decorator(attr) = "cached_property" /\ cache[attr] # Unset
    THEN ReadResult(cache[attr], 0, cache, <<[attr |-> attr, out |-> cache[attr]]>>)
    ELSE LET keep == Decorator(attr) = "cached_property" /\ body.out.kind # "raise"
         IN  ReadResult(body.out, body.calls,
                        IF keep THEN [body.cache EXCEPT ![attr] = body.out]
                        ELSE body.cache,
                        Append(body.reads, [attr |-> attr, out |-> body.out]))

\* The body of an attribute that asks the remote
RemoteBody(attr, cache, remote) ==
    ReadResult(Query(attr, remote).out, Query(attr, remote).calls, cache, << >>)

\* The body of basename (lines 357-361): it reads self.path
BasenameBody(cache, remote) ==
    LET path == Get("path", cache, RemoteBody("path", cache, remote))
    IN  ReadResult(IF path.out = PyNone THEN PyNone
                   ELSE Value("basename", path.out.v[2]),
                   path.calls, path.cache, path.reads)

\* Reading handle.attr
Read(attr, cache, remote) ==
    IF attr = "basename" THEN Get(attr, cache, BasenameBody(cache, remote))
    ELSE Get(attr, cache, RemoteBody(attr, cache, remote))

\* The first value each attribute read has returned, after `reads`
RECURSIVE Returned(_, _)
Returned(returned, reads) ==
    IF reads = << >> THEN returned
    ELSE LET r == Head(reads)
         IN  Returned(IF returned[r.attr] = Unset /\ r.out.kind # "raise"
                      THEN [returned EXCEPT ![r.attr] = r.out]
                      ELSE returned,
                      Tail(reads))

NoRead == [attr |-> "none", out |-> PyNone, calls |-> 0, remote |-> "first",
           earlier |-> 0, before |-> Unset, pathBefore |-> Unset, nth |-> 0]

HandleIdle ==
    /\ hdPc = "off"
    /\ hdRemote = "first"
    /\ hdCache = [a \in MemoizedAttrs |-> Unset]
    /\ hdReturned = [a \in MemoizedAttrs \cup FreshAttrs |-> Unset]
    /\ hdCount = [a \in MemoizedAttrs \cup FreshAttrs |-> 0]
    /\ hdLast = NoRead

\* Before Process(client, pid) is called
HandleInit ==
    /\ hdPc = "new"
    /\ hdRemote \in RemoteStates
    /\ hdCache = [a \in MemoizedAttrs |-> Unset]
    /\ hdReturned = [a \in MemoizedAttrs \cup FreshAttrs |-> Unset]
    /\ hdCount = [a \in MemoizedAttrs \cup FreshAttrs |-> 0]
    /\ hdLast = NoRead

\* Process.__init__ (lines 156-163): it keeps client and pid and picks the
\* thread class from client.arch.
HandleCreate ==
    /\ hdPc = "new"
    /\ hdPc' = "made"
    /\ hdLast' = [NoRead EXCEPT !.attr = "__init__"]
    /\ UNCHANGED <<hdRemote, hdCache, hdReturned, hdCount>>
    /\ UNCHANGED hdOthers

\* One read of an attribute of the handle
HandleRead(attr) ==
    /\ hdPc = "made"
    /\ hdLast.nth < MaxReads
    /\ LET r == Read(attr, hdCache, hdRemote)
       IN  /\ hdCache' = r.cache
           /\ hdReturned' = Returned(hdReturned, r.reads)
           /\ hdLast' = [attr |-> attr, out |-> r.out, calls |-> r.calls,
                         remote |-> hdRemote,
                         earlier |-> hdCount[attr],
                         before |-> hdReturned[attr],
                         pathBefore |-> hdReturned["path"],
                         nth |-> hdLast.nth + 1]
    /\ hdCount' = [hdCount EXCEPT ![attr] = Min(@ + 1, 2)]
    /\ UNCHANGED <<hdPc, hdRemote>>
    /\ UNCHANGED hdOthers

ReadMemoized ==
    /\ hdPc = "made"
    /\ \E attr \in MemoizedAttrs : HandleRead(attr)

ReadFresh ==
    /\ hdPc = "made"
    /\ \E attr \in FreshAttrs : HandleRead(attr)

\* The remote process changes, exits, or its pid is taken by another.
RemoteChanges ==
    /\ hdPc = "made"
    /\ \E remote \in RemoteStates \ {hdRemote} : hdRemote' = remote
    /\ UNCHANGED <<hdPc, hdCache, hdReturned, hdCount, hdLast>>
    /\ UNCHANGED hdOthers

HandleNext ==
    \/ HandleCreate
    \/ ReadMemoized
    \/ ReadFresh
    \/ RemoteChanges

-----------------------------------------------------------------------------
(* Fs.write_file (pyzshell/fs.py): open, write until the buffer is empty,   *)
(* close.                                                                   *)

MaxBuf == 4

\* The bytes of the buffers handed to write_file
BufBytes == {0, 65}

RECURSIVE SeqsUpTo(_, _)
SeqsUpTo(S, n) ==
    IF n = 0 THEN {<< >>}
    ELSE LET shorter == SeqsUpTo(S, n - 1)
         IN  shorter \cup { Append(b, x) : b \in shorter, x \in S }

Buffers == SeqsUpTo(BufBytes, MaxBuf)

\* What the remote open returns as c_int32: a descriptor, or -1
OpenResults == {-1, 3}

\* What the remote write(fd, buf, len(buf)) returns as c_int64: the
\* number of bytes it accepted, from 1 to len(buf), or -1
WriteResults(pending) == {-1} \cup (1 .. Len(pending))

\* buf[err:] taken as though every write accepted the whole buffer
BufFrom_AllWritten(pending, err) == << >>

\* buf[err:] (line 43)
BufFrom(pending, err) ==
    IF err >= Len(pending) THEN << >>
    ELSE SubSeq(pending, err + 1, Len(pending))

\* The bytes the remote write accepted: the first err of those passed
Accepted(pending, err) == SubSeq(pending, 1, err)

ZShellError == [kind |-> "raise", v |-> "ZShellError"]

WriteFileIdle ==
    /\ wfBuf = << >>
    /\ wfPending = << >>
    /\ wfFile = << >>
    /\ wfFd = 0
    /\ wfErr = 0
    /\ wfWrites = 0
    /\ wfCloses = 0
    /\ wfPc = "idle"
    /\ wfOut = PyNone

\* write_file(filename, buf) is called
WriteFileInit ==
    /\ wfBuf \in Buffers
    /\ wfPending = wfBuf
    /\ wfFile = << >>
    /\ wfFd = 0
    /\ wfErr = 0
    /\ wfWrites = 0
    /\ wfCloses = 0
    /\ wfPc = "open"
    /\ wfOut = PyNone

\* fd = open(...).c_int32; if fd < 0: raise (lines 35-37)
WriteFileOpen ==
    /\ wfPc = "open"
    /\ \E fd \in OpenResults :
        /\ wfFd' = fd
        /\ IF fd < 0
           THEN wfPc' = "done" /\ wfOut' = ZShellError
           ELSE wfPc' = "loop" /\ wfOut' = wfOut
    /\ UNCHANGED <<wfBuf, wfPending, wfFile, wfErr, wfWrites, wfCloses>>
    /\ UNCHANGED wfOthers

\* One turn of the loop: err = write(fd, buf, len(buf)).c_int64;
\* if err < 0: raise; buf = buf[err:] (lines 39-43)
WriteFileWrite ==
    /\ wfPc = "loop"
    /\ wfPending # << >>
    /\ \E err \in WriteResults(wfPending) :
        /\ wfErr' = err
        /\ wfWrites' = wfWrites + 1
        /\ IF err < 0
           THEN /\ wfPc' = "done"
                /\ wfOut' = ZShellError
                /\ UNCHANGED <<wfPending, wfFile>>
           ELSE /\ wfFile' = wfFile \o Accepted(wfPending, err)
                /\ wfPending' = BufFrom(wfPending, err)
                /\ UNCHANGED <<wfPc, wfOut>>
    /\ UNCHANGED <<wfBuf, wfFd, wfCloses>>
    /\ UNCHANGED wfOthers

\* The loop ends on an empty buffer: close(fd), return None (lines 39, 45)
WriteFileClose ==
    /\ wfPc = "loop"
    /\ wfPending = << >>
    /\ wfCloses' = wfCloses + 1
    /\ wfPc' = "done"
    /\ wfOut' = PyNone
    /\ UNCHANGED <<wfBuf, wfPending, wfFile, wfFd, wfErr, wfWrites>>
    /\ UNCHANGED wfOthers

WriteFileNext ==
    \/ WriteFileOpen
    \/ WriteFileWrite
    \/ WriteFileClose

-----------------------------------------------------------------------------
(* The specifications.                                                      *)

SpecObjcInit == ObjcInit /\ StrIdle /\ FdIdle /\ CfIdle /\ ProcIdle
    /\ ScanIdle /\ DecodeIdle /\ ReflectIdle /\ TaskIdle /\ HandleIdle
    /\ WriteFileIdle
SpecObjcNext == CallIsObjcType

SpecPeekStrInit == StrInit /\ ObjcIdle /\ FdIdle /\ CfIdle /\ ProcIdle
    /\ ScanIdle /\ DecodeIdle /\ ReflectIdle /\ TaskIdle /\ HandleIdle
    /\ WriteFileIdle
SpecPeekStrNext == PeekStrNext

SpecFdsInit == FdInit /\ ObjcIdle /\ StrIdle /\ CfIdle /\ ProcIdle /\ ScanIdle
    /\ DecodeIdle /\ ReflectIdle /\ TaskIdle /\ HandleIdle /\ WriteFileIdle
SpecFdsNext == CallFdStructs \/ CallFds

SpecCfInit == CfInit /\ ObjcIdle /\ StrIdle /\ FdIdle /\ ProcIdle /\ ScanIdle
    /\ DecodeIdle /\ ReflectIdle /\ TaskIdle /\ HandleIdle /\ WriteFileIdle
SpecCfNext == CallCf \/ CallCfRaises \/ CallDecodeCf

SpecProcInit == ProcInit /\ ObjcIdle /\ StrIdle /\ FdIdle /\ CfIdle
    /\ ScanIdle /\ DecodeIdle /\ ReflectIdle /\ TaskIdle /\ HandleIdle
    /\ WriteFileIdle
SpecProcNext == ProcNext

SpecScanInit == ScanInit /\ ObjcIdle /\ StrIdle /\ FdIdle /\ CfIdle
    /\ ProcIdle /\ DecodeIdle /\ ReflectIdle /\ TaskIdle /\ HandleIdle
    /\ WriteFileIdle
SpecScanNext == CallFuser \/ CallGetProcessByListeningPort \/ CallLsof

SpecDecodeInit == DecodeInit /\ ObjcIdle /\ StrIdle /\ FdIdle /\ CfIdle
    /\ ProcIdle /\ ScanIdle /\ ReflectIdle /\ TaskIdle /\ HandleIdle
    /\ WriteFileIdle
SpecDecodeNext ==
    \/ DecodeSerialize \/ DecodeGetLength \/ DecodeGetBytePtr \/ DecodePeek
    \/ DecodeRemoteCallRaises \/ DecodeLoads \/ DecodeRelease

SpecReflectInit == ReflectInit /\ ObjcIdle /\ StrIdle /\ FdIdle /\ CfIdle
    /\ ProcIdle /\ ScanIdle /\ DecodeIdle /\ TaskIdle /\ HandleIdle
    /\ WriteFileIdle
SpecReflectNext ==
    ReflectNext

SpecTaskInit == TaskInit /\ ObjcIdle /\ StrIdle /\ FdIdle /\ CfIdle
    /\ ProcIdle /\ ScanIdle /\ DecodeIdle /\ ReflectIdle /\ HandleIdle
    /\ WriteFileIdle
SpecTaskNext ==
    TaskNext

SpecHandleInit == HandleInit /\ ObjcIdle /\ StrIdle /\ FdIdle /\ CfIdle
    /\ ProcIdle /\ ScanIdle /\ DecodeIdle /\ ReflectIdle /\ TaskIdle
    /\ WriteFileIdle
SpecHandleNext ==
    HandleNext

SpecWriteFileInit == WriteFileInit /\ ObjcIdle /\ StrIdle /\ FdIdle /\ CfIdle
    /\ ProcIdle /\ ScanIdle /\ DecodeIdle /\ ReflectIdle /\ TaskIdle
    /\ HandleIdle
SpecWriteFileNext ==
    WriteFileNext

SpecObjc      == SpecObjcInit /\ [][SpecObjcNext]_vars
SpecPeekStr   == SpecPeekStrInit /\ [][SpecPeekStrNext]_vars
SpecFds       == SpecFdsInit /\ [][SpecFdsNext]_vars
SpecCf        == SpecCfInit /\ [][SpecCfNext]_vars
SpecProc      == SpecProcInit /\ [][SpecProcNext]_vars
SpecScan      == SpecScanInit /\ [][SpecScanNext]_vars
SpecDecode    == SpecDecodeInit /\ [][SpecDecodeNext]_vars
SpecReflect   == SpecReflectInit /\ [][SpecReflectNext]_vars
SpecTask      == SpecTaskInit /\ [][SpecTaskNext]_vars
SpecHandle    == SpecHandleInit /\ [][SpecHandleNext]_vars
SpecWriteFile == SpecWriteFileInit /\ [][SpecWriteFileNext]_vars

-----------------------------------------------------------------------------
(* C2: peek_str returns the text of exactly the bytes from the start       *)
(* address up to the first NUL, whenever that NUL is readable, wherever    *)
(* the unmapped boundary lies after it.                                    *)

\* The address of the first NUL at or after the start address, if readable
FirstNulFrom(m, start) ==
    CHOOSE a \in start..(Len(m) - 1) :
        /\ m[a + 1] = 0
        /\ \A c \in start..(a - 1) : m[c + 1] # 0

NulReadable(m, start) == \E a \in start..(Len(m) - 1) : m[a + 1] = 0

C2_PeekStrPrefix ==
    (strPc = "done" /\ NulReadable(mem, strStart)) =>
        strOut = Utf8Decode(SubSeq(mem, strStart + 1, FirstNulFrom(mem, strStart)))

\* peek_str returned after at least one chunk peek failed (size shrank) and
\* after a chunk without NUL was appended, with a two-byte character
\* in the text.
C2_Witness ==
    /\ strPc = "done"
    /\ NulReadable(mem, strStart)
    /\ size < PEEK_STR_CHUNK_SIZE
    /\ address > strStart
    /\ strOut.kind = "str"
    /\ \E i \in 1..Len(strOut.v) : strOut.v[i] = 233

-----------------------------------------------------------------------------
(* C10: is_objc_type answers "object" for every address with bit 63 set,   *)
(* whatever else holds of the address (an isa-magic match, unreadable      *)
(* memory), and issues no remote peek for it.                              *)

C10_TaggedIsObject ==
    (objcPc = "done" /\ BitAnd(objcSymbol, {63}) = {63}) =>
        (objcOut.ret = TRUE /\ objcOut.peeks = 0)

\* A tagged address that also matches an isa magic, at unreadable memory,
\* has been classified.
C10_Witness ==
    /\ objcPc = "done"
    /\ 63 \in objcSymbol
    /\ MatchesIsaMagic(objcSymbol)
    /\ ~objcMemory.readable
    /\ objcOut.ret = TRUE

-----------------------------------------------------------------------------
(* C3: in fd_structs a detail query failing with EBADF drops that one      *)
(* entry and the enumeration goes on; a detail query failing with any      *)
(* other errno aborts the call with an error and no list is returned.      *)

\* The entries fd_structs issues a detail query for
HasDetailQuery(raw) ==
    raw.proc_fdtype \in
        {"PROX_FDTYPE_VNODE", "PROX_FDTYPE_SOCKET", "PROX_FDTYPE_PIPE"}

QueryAnswered(raw) == HasDetailQuery(raw) /\ raw.errno = "ok"

\* The proc_fd numbers of a sequence of entries or records, in order
FdNumbersOf(entries) == [i \in 1..Len(entries) |-> entries[i].proc_fd]

C3_EbadfSkippedOthersAbort ==
    (fdPc = "fd_structs" /\ fdListOk /\ Len(fdListing) > 0) =>
        IF \E i \in 1..Len(fdListing) :
               /\ HasDetailQuery(fdListing[i])
               /\ fdListing[i].errno \notin {"ok", "EBADF"}
        THEN fdOut = Raise("BadReturnValueError")
        ELSE /\ fdOut.kind = "list"
             /\ [i \in 1..Len(fdOut.v) |-> fdOut.v[i].fd.proc_fd]
                    = FdNumbersOf(SelectSeq(fdListing, QueryAnswered))

\* fd_structs returned the entry that follows an entry whose detail query
\* failed with EBADF.
C3_Witness ==
    /\ fdPc = "fd_structs"
    /\ fdListOk
    /\ Len(fdListing) = 2
    /\ HasDetailQuery(fdListing[1])
    /\ fdListing[1].errno = "EBADF"
    /\ fdOut.kind = "list"
    /\ Len(fdOut.v) = 1
    /\ fdOut.v[1].fd.proc_fd = fdListing[2].proc_fd

-----------------------------------------------------------------------------
(* C4: fds gives each raw descriptor the record variant its discriminators *)
(* determine (vnode: FileFd, pipe: PipeFd, socket UN: UnixFd, socket       *)
(* (AF_INET, TCP): Ipv4TcpFd, (AF_INET6, TCP): Ipv6TcpFd, (AF_INET, IN):   *)
(* Ipv4UdpFd, (AF_INET6, IN): Ipv6UdpFd), with the descriptor's own fd     *)
(* number, in the order of the raw listing.                                *)

\* The variant the claim names for a raw descriptor, "none" when it names
\* none.
ClaimedVariant(raw) ==
    CASE raw.proc_fdtype = "PROX_FDTYPE_VNODE" -> "FileFd"
      [] raw.proc_fdtype = "PROX_FDTYPE_PIPE" -> "PipeFd"
      [] raw.proc_fdtype = "PROX_FDTYPE_SOCKET" /\ raw.soi_kind = "SOCKINFO_UN"
            -> "UnixFd"
      [] /\ raw.proc_fdtype = "PROX_FDTYPE_SOCKET"
         /\ raw.soi_kind = "SOCKINFO_TCP"
         /\ raw.soi_family = "AF_INET"  -> "Ipv4TcpFd"
      [] /\ raw.proc_fdtype = "PROX_FDTYPE_SOCKET"
         /\ raw.soi_kind = "SOCKINFO_TCP"
         /\ raw.soi_family = "AF_INET6" -> "Ipv6TcpFd"
      [] /\ raw.proc_fdtype = "PROX_FDTYPE_SOCKET"
         /\ raw.soi_kind = "SOCKINFO_IN"
         /\ raw.soi_family = "AF_INET"  -> "Ipv4UdpFd"
      [] /\ raw.proc_fdtype = "PROX_FDTYPE_SOCKET"
         /\ raw.soi_kind = "SOCKINFO_IN"
         /\ raw.soi_family = "AF_INET6" -> "Ipv6UdpFd"
      [] OTHER -> "none"

Tagged(raw) == QueryAnswered(raw) /\ ClaimedVariant(raw) # "none"

C4_VariantByDiscriminators ==
    (fdPc = "fds" /\ fdOut.kind = "list") =>
        LET tagged == SelectSeq(fdListing, Tagged)
        IN  [i \in 1..Len(fdOut.v) |-> <<fdOut.v[i].cls, fdOut.v[i].fd>>]
              = [i \in 1..Len(tagged) |->
                     <<ClaimedVariant(tagged[i]), tagged[i].proc_fd>>]

\* fds returned two records, an IPv6 UDP socket after an IPv4 UDP socket or
\* an IPv6 TCP socket.
C4_Witness ==
    /\ fdPc = "fds"
    /\ fdOut.kind = "list"
    /\ Len(fdOut.v) = 2
    /\ fdOut.v[1].cls \in {"Ipv4UdpFd", "Ipv6TcpFd"}
    /\ fdOut.v[2].cls = "Ipv6UdpFd"
    /\ fdOut.v[2].fd = FdNumber(2)

-----------------------------------------------------------------------------
(* C5: every raw descriptor of the listing whose detail query did not      *)
(* report EBADF has exactly one record in the result of fds, whatever its  *)
(* type, socket kind and socket family; none is dropped and none makes fds *)
(* fail with an untyped error.                                             *)

C5_EveryDescriptorTagged ==
    (fdPc = "fds") =>
        /\ fdOut # Raise("KeyError")
        /\ fdOut.kind = "list" =>
               \A i \in 1..Len(fdListing) :
                   fdListing[i].errno # "EBADF" =>
                       Cardinality({ j \in 1..Len(fdOut.v) :
                           fdOut.v[j].fd = fdListing[i].proc_fd }) = 1

-----------------------------------------------------------------------------
(* C1: for every object of a listed shape (None, bool, an instant with a   *)
(* timezone, text, bytes, int, float, list, text-keyed dict and nestings), *)
(* decode_cf(cf(v)) returns an object equal to v, dict order aside.        *)

C1_RoundTrip ==
    (cfPc = "done") => (cfOut.kind # "raise" /\ PyEq(cfOut, cfIn))

\* The round trip of the objects that hold no datetime with a tzinfo.
RECURSIVE HasAwareDatetime(_)
HasAwareDatetime(o) ==
    CASE o.kind = "datetime" -> o.v.tz # "naive"
      [] o.kind = "list" -> \E i \in 1..Len(o.v) : HasAwareDatetime(o.v[i])
      [] o.kind = "dict" -> \E i \in 1..Len(o.v) : HasAwareDatetime(o.v[i].val)
      [] OTHER -> FALSE

RoundTripWithoutTzinfo ==
    (cfPc = "done" /\ ~HasAwareDatetime(cfIn)) =>
        (cfOut.kind # "raise" /\ PyEq(cfOut, cfIn))

-----------------------------------------------------------------------------
(* Claims about the process directory.                                      *)

\* The pids found in a sequence of pids
PidsOf(pids) == { pids[i] : i \in 1..Len(pids) }

\* The lookup that has just returned searched the listing its own list()
\* call fetched, not one fetched by an earlier call.
SearchedOwnListing ==
    /\ callCount = Min(callHint, Len(fetchTable))
    /\ callList = SubSeq(fetchTable, 1, callCount)

\* No process of the searched listing has what the lookup was asked for.
NoMatch ==
    CASE callOp = "get_by_pid" -> callArg \notin PidsOf(callList)
      [] callOp = "get_by_basename" ->
            \A pid \in PidsOf(callList) :
                ProcPath(pid) = << >> \/ ProcPath(pid)[Len(ProcPath(pid))] # callArg
      [] callOp = "get_by_name" ->
            \A pid \in PidsOf(callList) : ProcName(pid) # callArg
      [] callOp = "grep" ->
            \A pid \in PidsOf(callList) :
                \/ ProcPath(pid) = << >>
                \/ ~IsSubstring(callArg, ProcPath(pid)[Len(ProcPath(pid))])

LookupReturned ==
    /\ callPc = "done"
    /\ callOp \in {"get_by_pid", "get_by_basename", "get_by_name", "grep"}

\* C7 as stated: each of get_by_pid, get_by_basename, get_by_name and grep
\* searches a fresh list() snapshot and fails with the not-found error
\* (ArgumentError) when no process of that snapshot matches.
C7_NoMatchRaisesNotFound ==
    LookupReturned =>
        /\ SearchedOwnListing
        /\ NoMatch => callOut = Raise("ArgumentError")

\* C7, as the code has it: each of the four lookups searches a fresh list()
\* snapshot.  On no match get_by_pid and get_by_basename raise ArgumentError;
\* get_by_name raises ArgumentError, or BadReturnValueError when a listed
\* process exited before its name was queried; grep raises nothing and
\* returns the list of the matches, which is then empty.
C7_NoMatchByLookup ==
    LookupReturned =>
        /\ SearchedOwnListing
        /\ callOp = "grep" => callOut.kind = "list"
        /\ NoMatch =>
            CASE callOp \in {"get_by_pid", "get_by_basename"} ->
                    callOut = Raise("ArgumentError")
              [] callOp = "get_by_name" ->
                    callOut \in { Raise("ArgumentError"),
                                  Raise("BadReturnValueError") }
              [] callOp = "grep" -> callOut = PyList(<< >>)

\* A grep that matched nothing returned, after a list() call that had seen
\* another table.
C7_Witness ==
    /\ LookupReturned
    /\ callOp = "grep"
    /\ NoMatch
    /\ callList # << >>
    /\ prevList.valid
    /\ prevList.pids # callList

\* get_by_pid(pid) has returned, called right after a list() whose result
\* holds pid.
GetByPidAfterList ==
    /\ callPc = "done"
    /\ callOp = "get_by_pid"
    /\ prevList.valid
    /\ callArg \in PidsOf(prevList.pids)

\* C8 as stated: list() and then get_by_pid(pid), for a pid of the list
\* returned, always gives the handle of pid, whatever the remote process
\* table does between and during the two calls.
C8_ListedPidAlwaysFound ==
    GetByPidAfterList => callOut = [kind |-> "Process", v |-> Handle(callArg)]

\* C8, as the code has it: list() and then get_by_pid(pid), for a pid of the
\* list returned, gives the handle of pid exactly when pid is among the pids
\* that get_by_pid's own list() fetched; when pid has exited since, or newly
\* created processes have pushed it out of the buffer sized by the first
\* call, get_by_pid raises ArgumentError.
C8_FoundIffInOwnListing ==
    GetByPidAfterList =>
        /\ SearchedOwnListing
        /\ callArg \in PidsOf(callList)
            => callOut = [kind |-> "Process", v |-> Handle(callArg)]
        /\ callArg \notin PidsOf(callList)
            => callOut = Raise("ArgumentError")

\* get_by_pid found a listed pid although the remote table had changed
\* since the list() call.
C8_Witness ==
    /\ GetByPidAfterList
    /\ callOut.kind = "Process"
    /\ fetchTable # prevList.pids

\* C9: list() makes two proc_listallpids calls, the size query and the fetch
\* into a buffer sized from the first answer, and returns one handle per pid
\* slot counted by the second call, in buffer order: the length of the
\* result is the second call's count, also when it differs from the hint.
C9_LengthIsSecondCount ==
    (callOp = "list" /\ callPc = "done") =>
        /\ callCount = Min(callHint, Len(fetchTable))
        /\ callOut.kind = "list"
        /\ Len(callOut.v) = callCount
        /\ \A i \in 1..callCount : callOut.v[i] = Handle(fetchTable[i])

\* list() returned handles although the second count was below the hint.
C9_Witness ==
    /\ callOp = "list"
    /\ callPc = "done"
    /\ callCount > 0
    /\ callCount < callHint
    /\ Len(callOut.v) = callCount

-----------------------------------------------------------------------------
(* Claims about the bulk scans.                                             *)

FdQueryFails(proc) == Fds(proc.listOk, proc.listing).kind = "raise"
FdQuerySucceeds(proc) == ~FdQueryFails(proc)

\* The scan that has returned, run on `procs` instead
SameScanOf(procs) ==
    CASE scanOp = "fuser" -> Fuser(procs, scanArg)
      [] scanOp = "get_process_by_listening_port" ->
            GetProcessByListeningPort(procs, scanArg)
      [] scanOp = "lsof" -> Lsof(procs)

ScanSkipsBadReturnValue ==
    (/\ scanPc = "done"
     /\ \A i \in 1..Len(scanProcs) :
            LET fds == Fds(scanProcs[i].listOk, scanProcs[i].listing)
            IN  fds.kind = "raise" => fds.v = "BadReturnValueError")
        => /\ scanOut.kind # "raise"
           /\ scanOut = SameScanOf(SelectSeq(scanProcs, FdQuerySucceeds))

-----------------------------------------------------------------------------
(* Claims about the classifier's untagged branches.                         *)

\* C11: is_objc_type answers "not object" for an untagged address that
\* itself matches an isa-magic (mask, value) pair, whatever the 8 bytes at
\* the address are, and issues no remote peek for it.
C11_MagicAddressIsNotObject ==
    (objcPc = "done" /\ 63 \notin objcSymbol /\ MatchesIsaMagic(objcSymbol)) =>
        (objcOut.ret = FALSE /\ objcOut.peeks = 0)

\* An untagged isa-magic address whose readable 8 bytes match an isa magic
\* too has been classified.
C11_Witness ==
    /\ objcPc = "done"
    /\ 63 \notin objcSymbol
    /\ MatchesIsaMagic(objcSymbol)
    /\ objcMemory.readable
    /\ MatchesIsaMagic(objcMemory.isa)
    /\ objcOut.ret = FALSE

\* C12: for an address neither tagged nor an isa-magic match, is_objc_type
\* peeks the 8 bytes at the address once; a failed peek gives "not object"
\* (a bool, no exception), a peeked value matching an isa-magic pair gives
\* "object", any other peeked value gives "not object".
C12_PeekedIsaDecides ==
    (objcPc = "done" /\ 63 \notin objcSymbol /\ ~MatchesIsaMagic(objcSymbol)) =>
        /\ objcOut.peeks = 1
        /\ ~objcMemory.readable => objcOut.ret = FALSE
        /\ (objcMemory.readable /\ MatchesIsaMagic(objcMemory.isa))
              => objcOut.ret = TRUE
        /\ (objcMemory.readable /\ ~MatchesIsaMagic(objcMemory.isa))
              => objcOut.ret = FALSE

\* A plain address whose peeked isa matches an isa magic has been
\* classified as object.
C12_Witness ==
    /\ objcPc = "done"
    /\ 63 \notin objcSymbol
    /\ ~MatchesIsaMagic(objcSymbol)
    /\ objcSymbol # {}
    /\ objcMemory.readable
    /\ MatchesIsaMagic(objcMemory.isa)
    /\ objcOut = [ret |-> TRUE, peeks |-> 1]

-----------------------------------------------------------------------------
(* Claims about decode_cf's temporary data object.                          *)

\* C13: a decode_cf call whose serialization call returned a data object
\* has released it exactly once when the call is over, however it ends
\* (return, a failing length or pointer call, a failing peek, a failing
\* parse); a call whose serialization result is null returns None and
\* releases nothing.
C13_DataReleasedOnce ==
    dcPc = "done" =>
        /\ dcData => dcReleases = 1
        /\ ~dcData => (dcReleases = 0 /\ dcOut = PyNone)

\* What holds of decode_cf: the data object is released once when the call
\* returns a value, never more than once, and not at all when it raises.
DataReleasedIffReturned ==
    dcPc = "done" =>
        /\ dcReleases <= 1
        /\ dcData => (dcReleases = 1 <=> dcOut.kind # "raise")
        /\ ~dcData => (dcReleases = 0 /\ dcOut = PyNone)

-----------------------------------------------------------------------------
(* Claims about the reflection protocol.                                    *)

\* The steps of a call that use the socket
InExchange(c) == rfPc[c] \in {"sendall", "recv_len", "recv_payload"}

SpecReflectFair ==
    SpecReflect /\ \A c \in Callers : WF_vars(ReflectCallerNext(c))

\* A call that is over never has a description made of fewer bytes than
\* the length declared, and one that got fewer ended with ProtocolError.
NoTruncatedDescription ==
    \A c \in Callers :
        rfPc[c] = "done" =>
            /\ rfOut[c].kind = "Mapping" => Len(rfOut[c].v) = rfLen[c]
            /\ Len(rfBuf[c]) < rfLen[c] => rfOut[c] = Raise("ProtocolError")

\* C15: when an answer declares a length L and the connection closes after
\* fewer than L payload bytes, showobject/showclass end with a protocol
\* error: the call returns (it does not wait forever) and never returns a
\* description parsed from fewer than L bytes.
C15_ShortReadEndsWithError ==
    /\ []NoTruncatedDescription
    /\ \A c \in Callers :
          (rfClosed /\ rfPc[c] \in {"recv_len", "recv_payload"})
              ~> (rfPc[c] = "done")

\* A caller got some of the payload bytes, but not all, and its call ended
\* with ProtocolError.
C15_Witness ==
    \E c \in Callers :
        /\ rfPc[c] = "done"
        /\ rfClosed
        /\ rfLen[c] > 1
        /\ Len(rfBuf[c]) = rfLen[c] - 1
        /\ rfOut[c] = Raise("ProtocolError")

-----------------------------------------------------------------------------
(* Claims about the task and thread calls.                                  *)

\* C16: Process.peek fails with a memory-access error unless the remote
\* read reports success and the length it reports equals the size asked
\* for; it never returns bytes when the reported length differs.
C16_PeekNeedsFullLength ==
    tkOp = "peek" =>
        /\ ~(tkRemote.status = 0 /\ tkRemote.reported = tkRemote.size)
              => tkOut = Raise("BadReturnValueError")
        /\ tkOut.kind = "bytes" => tkRemote.reported = tkRemote.size

\* What peek does: it fails exactly when vm_read returns nonzero, whatever
\* length was reported.
PeekFollowsStatusOnly ==
    tkOp = "peek" =>
        /\ tkRemote.status # 0 <=> tkOut = Raise("BadReturnValueError")
        /\ tkRemote.status = 0 <=> tkOut = [kind |-> "bytes", v |-> tkRemote.data]

\* One of the steps of images that read the remote failed.
ImagesReadFailed ==
    \/ tkRemote.status # 0
    \/ ~tkRemote.header
    \/ ~tkRemote.array
    \/ \E i \in 1..Len(tkRemote.paths) : ~tkRemote.paths[i].readable

\* C17: Process.images is all-or-nothing: when any peek fails (the header,
\* the image array, or a path string read by peek_str) it raises a
\* memory-access error and returns no list, and it never returns an Image
\* whose path is missing.
C17_ImagesAllOrNothing ==
    tkOp = "images" =>
        /\ ImagesReadFailed => tkOut = Raise("BadReturnValueError")
        /\ tkOut.kind = "list" =>
              \A i \in 1..Len(tkOut.v) : tkOut.v[i].path # PyNone

\* What images does: a failure of task_info, of the header peek or of the
\* array peek raises; the list it returns holds one Image for each entry
\* of the array, with the path peek_str gave, None for a string that
\* cannot be read.
ImagesKeepUnreadablePaths ==
    tkOp = "images" =>
        /\ (tkRemote.status # 0 \/ ~tkRemote.header \/ ~tkRemote.array)
              <=> tkOut = Raise("BadReturnValueError")
        /\ tkOut.kind = "list" =>
              /\ Len(tkOut.v) = Len(tkRemote.paths)
              /\ \A i \in 1..Len(tkOut.v) :
                    tkOut.v[i].path = PyNone <=> ~tkRemote.paths[i].readable

\* C18: every scoped buffer an operation acquires (peek, list, fd_structs,
\* threads, images, get_state, task, path, task_all_info) is released
\* before the operation returns, on every exit path: after any sequence of
\* operations no scoped buffer is still allocated.
C18_NoScopedBufferLeft == tkAlive = 0

\* An operation that went through several blocks has raised.
C18_Witness ==
    /\ tkOp = "images"
    /\ tkOut.kind = "raise"
    /\ tkAcquired >= 6
    /\ tkAlive = 0

\* C19: for both architectures, get_state and set_state fail whenever
\* thread_get_state / thread_set_state returns nonzero, and get_state
\* returns a decoded register block only when the status is zero.
C19_StateCallsFollowStatus ==
    /\ tkOp \in {"get_state", "set_state"} =>
          (tkRemote.status # 0 <=> tkOut = Raise("BadReturnValueError"))
    /\ (tkOp = "get_state" /\ tkOut.kind = "state") =>
          /\ tkRemote.status = 0
          /\ tkOut.class = ThreadClass(tkRemote.arch)
          /\ tkOut.v = tkRemote.data

\* thread_get_state has failed on an Intel client.
C19_Witness ==
    /\ tkOp = "get_state"
    /\ tkRemote.arch = "ARCH_AMD64"
    /\ tkRemote.status # 0
    /\ tkOut = Raise("BadReturnValueError")

-----------------------------------------------------------------------------
(* C20: the steps of the peek_str loop.                                     *)

\* What one iteration of the loop does to address, buf and size, told from
\* the remote read alone.
PeekStrIteration ==
    (strPc = "loop" /\ size # 0) =>
        LET chunk == ProcessPeek(mem, address, size)
        IN  /\ chunk.kind = "raise" =>
                  /\ address' = address
                  /\ buf' = buf
                  /\ size' = size \div 2
            /\ (chunk.kind = "bytes" /\ ~HasNul(buf \o chunk.v)) =>
                  /\ buf' = buf \o chunk.v
                  /\ address' = address + size
                  /\ size' = size

\* At the head of the loop buf holds the remote bytes from the start
\* address up to `address`.
BufIsWhatWasRead ==
    strPc = "loop" => buf = SubSeq(mem, strStart + 1, address)

\* C20: in the peek_str loop a chunk peek that fails leaves address and
\* buf as they are and halves the chunk size; a chunk peek that succeeds
\* without a NUL appends the chunk, advances address by the chunk size and
\* leaves the size as it is.  Hence buf always equals the remote bytes from
\* the start address up to the current address, and the chunk size never
\* grows.
C20_PeekStrLoopSteps ==
    /\ [][PeekStrIteration]_vars
    /\ []BufIsWhatWasRead
    /\ [][size' <= size]_vars

\* The loop has appended a chunk and, after a failed peek, goes on with a
\* smaller chunk.
C20_Witness ==
    /\ strPc = "loop"
    /\ size # 0
    /\ size < PEEK_STR_CHUNK_SIZE
    /\ address > strStart
    /\ buf # << >>
    /\ buf = SubSeq(mem, strStart + 1, address)

-----------------------------------------------------------------------------
(* C21: peek_str on a string without a readable NUL.                        *)

\* What is left of the loop: the bytes up to the end of the readable
\* region, counted in chunks, and the chunk size.
PeekStrRank == (Len(mem) - address) * (PEEK_STR_CHUNK_SIZE + 1) + size

\* peek_str ends on every memory of the model: while it loops some step
\* can be taken, and each step that stays in the loop makes the rank
\* smaller, a failed peek by halving the size and a successful one by
\* getting nearer the end of the readable region.
PeekStrTerminates ==
    /\ [](strPc = "loop" =>
            /\ PeekStrRank >= 0
            /\ \/ size = 0
               \/ ProcessPeek(mem, address, size).kind \in {"raise", "bytes"})
    /\ [][(strPc = "loop" /\ strPc' = "loop") => PeekStrRank' < PeekStrRank]_vars

\* Without a readable NUL the loop ends by giving up, with size 0.
NoNulEndsWithSizeZero ==
    (strPc = "done" /\ ~NulReadable(mem, strStart)) => size = 0

\* C21: peek_str terminates on every memory whose readable region from the
\* address on is finite; when that region holds no NUL the chunk size
\* reaches zero, peek_str gives up, and giving up reaches the caller as a
\* failure (a memory-access error), not as a returned value.
C21_GiveUpIsFailure ==
    (strPc = "done" /\ ~NulReadable(mem, strStart)) =>
        /\ size = 0
        /\ strOut = Raise("BadReturnValueError")

\* What the caller gets when peek_str gives up: None.
GiveUpReturnsNone ==
    (strPc = "done" /\ ~NulReadable(mem, strStart)) => strOut = PyNone

-----------------------------------------------------------------------------
(* C22: the protocol lock after a failed call.                              *)

\* The lock is held by a caller inside its exchange or by nobody; a caller
\* whose call has raised does not hold it.
LockFreeAfterFailure ==
    /\ rfLock # 0 => InExchange(rfLock)
    /\ \A c \in Callers :
          (rfPc[c] = "done" /\ rfOut[c].kind = "raise") => rfLock # c

\* C22: after a showobject/showclass call has failed (short read, timeout,
\* payload that does not parse) the protocol lock is free again: a later
\* call, by the same caller or by the other one, takes the lock and gets
\* through its own exchange instead of waiting forever.
C22_LockFreeAfterFailedCall ==
    /\ []LockFreeAfterFailure
    /\ \A c \in Callers :
          (rfFailed /\ rfPc[c] = "acquire")
              ~> (rfPc[c] \in {"loads", "done"})

\* A call has raised, a caller has called again, and a call that took the
\* lock after the failure has returned a description.
C22_Witness ==
    /\ rfFailed
    /\ rfCalls > 0
    /\ ~rfClosed
    /\ \E c \in Callers :
          /\ rfAfter[c]
          /\ rfPc[c] = "done"
          /\ rfOut[c].kind = "Mapping"

-----------------------------------------------------------------------------
(* C23: lazy and memoized attributes of a Process handle.                   *)

\* C23: the attributes task, path, basename, name, ppid, uid, gid, ruid and
\* rgid of a handle are lazy and memoized: making the handle issues no
\* remote call, the first read of an attribute issues the remote query, and
\* every later read of it returns the first value without a remote call,
\* also after the remote process has changed; fds, images and threads
\* issue their queries again on every read.
C23_LazyAndMemoized ==
    /\ hdLast.attr = "__init__" => hdLast.calls = 0
    /\ (hdLast.attr \in MemoizedAttrs /\ hdLast.earlier = 0) => hdLast.calls > 0
    /\ (hdLast.attr \in MemoizedAttrs /\ hdLast.earlier > 0) =>
          (hdLast.calls = 0 /\ hdLast.out = hdLast.before)
    /\ hdLast.attr \in FreshAttrs => hdLast.calls > 0

\* What an attribute is when taken from the remote now
FromRemote(attr, remote) ==
    IF attr = "basename"
    THEN IF Query("path", remote).out = PyNone THEN PyNone
         ELSE Value("basename", remote)
    ELSE Query(attr, remote).out

\* C23 as the code has it: making the handle issues no remote call; once a
\* read of a memoized attribute has returned a value, every later read
\* returns that value without a remote call, whatever the remote holds by
\* then; a read of an attribute that has returned nothing yet (it was not
\* read, or its reads raised) issues the remote query, except that basename
\* issues none when path has already returned; fds, images and threads
\* query the remote on every read.
C23_MemoizedOnceReturned ==
    /\ hdLast.attr = "__init__" => hdLast.calls = 0
    /\ (hdLast.attr \in MemoizedAttrs /\ hdLast.before # Unset) =>
          (hdLast.calls = 0 /\ hdLast.out = hdLast.before)
    /\ (hdLast.attr \in MemoizedAttrs /\ hdLast.before = Unset) =>
          \/ hdLast.calls > 0 /\ hdLast.out = FromRemote(hdLast.attr, hdLast.remote)
          \/ hdLast.attr = "basename" /\ hdLast.pathBefore # Unset
    /\ hdLast.attr \in FreshAttrs =>
          (hdLast.calls > 0 /\ hdLast.out = FromRemote(hdLast.attr, hdLast.remote))

\* A later read of name has returned the name of the first process, with
\* no remote call, when the pid was another process's.
C23_Witness ==
    /\ hdLast.attr = "name"
    /\ hdLast.earlier > 0
    /\ hdLast.remote = "second"
    /\ hdLast.calls = 0
    /\ hdLast.out = Value("name", "first")

-----------------------------------------------------------------------------
(* C24: get_process_by_listening_port.                                      *)

\* The process's fd query succeeds and gives an inet socket record bound
\* to `port` with no remote port.
ListensOn(proc, port) ==
    LET fds == Fds(proc.listOk, proc.listing)
    IN  /\ fds.kind # "raise"
        /\ \E j \in 1..Len(fds.v) :
              /\ fds.v[j].cls \in {"Ipv4TcpFd", "Ipv4UdpFd", "Ipv6TcpFd", "Ipv6UdpFd"}
              /\ fds.v[j].local_port = port
              /\ fds.v[j].remote_port = 0

\* The place in the listing of the first process that listens on `port`
\* (one past the end if there is none)
FirstListening(procs, port) ==
    IF \E i \in 1..Len(procs) : ListensOn(procs[i], port)
    THEN CHOOSE i \in 1..Len(procs) :
            /\ ListensOn(procs[i], port)
            /\ \A k \in 1..(i - 1) : ~ListensOn(procs[k], port)
    ELSE Len(procs) + 1

\* What the claim says get_process_by_listening_port(port) returns
ListeningProcess(procs, port) ==
    IF FirstListening(procs, port) <= Len(procs)
    THEN [kind |-> "Process", v |-> Handle(procs[FirstListening(procs, port)].pid)]
    ELSE PyNone

ListeningProcessUnlessAborted ==
    (scanPc = "done" /\ scanOp = "get_process_by_listening_port") =>
        LET aborts(i) ==
                LET fds == Fds(scanProcs[i].listOk, scanProcs[i].listing)
                IN  fds.kind = "raise" /\ fds.v # "BadReturnValueError"
            last == Min(FirstListening(scanProcs, scanArg), Len(scanProcs))
        IN  IF \E i \in 1..last : aborts(i)
            THEN scanOut = Raise("KeyError")
            ELSE scanOut = ListeningProcess(scanProcs, scanArg)

-----------------------------------------------------------------------------
(* C26: fuser.                                                              *)

\* The process's fd query succeeds and gives a File record whose absolute
\* path is the absolute form of `path`.
HoldsOpen(proc, path) ==
    LET fds == Fds(proc.listOk, proc.listing)
    IN  /\ fds.kind # "raise"
        /\ \E j \in 1..Len(fds.v) :
              /\ fds.v[j].cls = "FileFd"
              /\ Absolute(fds.v[j].path) = Absolute(path)

\* The number of File records of the process open on `path`
OpenCount(proc, path) ==
    LET fds == Fds(proc.listOk, proc.listing)
    IN  IF fds.kind = "raise" THEN 0
        ELSE Cardinality({ j \in 1..Len(fds.v) :
                             /\ fds.v[j].cls = "FileFd"
                             /\ Absolute(fds.v[j].path) = Absolute(path) })

\* The handles of the processes of the listing that hold `path` open, in
\* listing order, each once
RECURSIVE HoldersOnce(_, _, _)
HoldersOnce(procs, i, path) ==
    IF i > Len(procs) THEN << >>
    ELSE (IF HoldsOpen(procs[i], path) THEN <<Handle(procs[i].pid)>> ELSE << >>)
            \o HoldersOnce(procs, i + 1, path)

\* C26: fuser(path) returns exactly the processes of the listing whose fd
\* query succeeded and that hold at least one File record whose absolute
\* path equals the absolute form of path, in listing order, each such
\* process exactly once, also when a process has the path open on several
\* descriptors.
C26_FuserEachHolderOnce ==
    (scanPc = "done" /\ scanOp = "fuser") =>
        scanOut = PyList(HoldersOnce(scanProcs, 1, scanArg))

\* The handles as fuser gives them: each holder once per File record open
\* on `path`
RECURSIVE HoldersPerRecord(_, _, _)
HoldersPerRecord(procs, i, path) ==
    IF i > Len(procs) THEN << >>
    ELSE [k \in 1..OpenCount(procs[i], path) |-> Handle(procs[i].pid)]
            \o HoldersPerRecord(procs, i + 1, path)

\* What holds of a fuser that was not ended by an exception: the holders
\* in listing order, each as many times as it has the path open.
FuserOncePerRecord ==
    (scanPc = "done" /\ scanOp = "fuser" /\ scanOut.kind # "raise") =>
        scanOut = PyList(HoldersPerRecord(scanProcs, 1, scanArg))

\* fuser on a listing without a socket that makes fds raise KeyError, and
\* with a process that has the path open twice
FuserTwiceOpen ==
    /\ scanPc = "done" /\ scanOp = "fuser" /\ scanOut.kind # "raise"
    /\ \E i \in 1..Len(scanProcs) : OpenCount(scanProcs[i], scanArg) = 2

-----------------------------------------------------------------------------
(* C25: the remote objects client.cf leaves behind.                         *)

\* cf has returned a reference
CfReturned == cfPc \in {"decode_cf", "done"} /\ cfOut.kind # "raise"

\* C25: cf leaves no intermediate remote object behind: after it returns,
\* the data object it made from the serialized bytes (CFDataCreate) has
\* been released, and the only remote object made by the call that is
\* still alive is the deserialized reference it returned.
C25_CfLeavesOnlyResult ==
    CfReturned => cfHeap \subseteq {"property list"}

\* What cf leaves: nothing for None, and for every other object the
\* property list it returns together with the data object, for which it
\* makes no release call.
CfLeavesDataObject ==
    CfReturned =>
        cfHeap = IF cfIn.kind = "None" THEN {}
                 ELSE {"plist_objc_bytes", "property list"}

-----------------------------------------------------------------------------
(* C27: write_file and partial writes.                                      *)

\* write_file is over
WriteFileOver == wfPc = "done"

\* No open or write has returned a negative number
NoNegativeReturn == wfFd >= 0 /\ wfErr >= 0

\* C27: write_file handles partial writes: whatever counts the remote
\* write returns, each from 1 to the bytes still pending, the bytes
\* accepted, in call order, followed by the bytes still pending are buf,
\* so that at the end the bytes accepted are buf, none sent twice and none
\* skipped; every write that succeeds shortens what is pending, so that
\* there are at most len(buf) writes; the descriptor is closed once, at the
\* end; and a negative return from open or write raises ZShellError instead.
C27_WriteFileHandlesPartialWrites ==
    /\ wfFile \o wfPending = wfBuf
    /\ NoNegativeReturn => wfWrites + Len(wfPending) <= Len(wfBuf)
    /\ wfCloses <= 1
    /\ WriteFileOver =>
        IF NoNegativeReturn
        THEN wfOut = PyNone /\ wfFile = wfBuf /\ wfCloses = 1
        ELSE wfOut = ZShellError
    /\ (wfPc = "loop" /\ wfPending = << >>) => wfFile = wfBuf

\* A buffer of three bytes or more got written in two writes, the first
\* of them partial, and the descriptor was closed.
C27_Witness ==
    /\ WriteFileOver
    /\ wfOut = PyNone
    /\ Len(wfBuf) >= 3
    /\ wfWrites = 2
    /\ wfFile = wfBuf
    /\ wfCloses = 1

\* After a write that returned a negative number nothing closes the
\* descriptor that open returned.
FailedWriteLeavesDescriptorOpen ==
    (WriteFileOver /\ wfFd >= 0 /\ wfErr < 0) => wfCloses = 0

====
